---- MODULE Spec2Model ----
(***************************************************************************)
(* A model of the Qingping CGD1 alarm-clock client (src/qingping):         *)
(* the Configuration and Alarm codecs, the connection manager              *)
(* (connect / _ensure_connected / _on_disconnect), the notification        *)
(* handler with its ack registry, and the ringtone upload engine.          *)
(*                                                                         *)
(* Conventions.  A Python bytes object is a sequence of integers 0..255;   *)
(* Python index k is TLA+ index k+1.  An Optional value is a sequence of   *)
(* length 0 (None) or 1.  A call that may raise yields a record            *)
(* [exc, val]: exc = "" on a normal return.                                *)
(***************************************************************************)
EXTENDS Integers, Sequences, FiniteSets, TLC

VARIABLES
    \* ---- Configuration codec (configuration.py) ----
    cfg,          \* the Configuration object under test
    cfgWire,      \* result of the last Configuration.to_bytes() on cfg
    cfgLast,      \* the last property assignment on cfg and its outcome
    \* ---- Alarm codec (alarm.py) ----
    alarm,        \* the Alarm object under test
    alarmWire,    \* result of the last Alarm.to_bytes() on alarm
    alarmDecoded, \* Alarm(slot, entry) decoded back from alarmWire (Optional)
    alarmLast,    \* the last operation on alarm
    \* ---- Qingping instance (qingping.py) ----
    client,           \* self.client: 0 (None) or the index of a BleakClient
    clients,          \* the BleakClient objects created so far
    cfgNotifyStarted, \* self._cfg_notify_started
    disconnectTask,   \* self._disconnect_task: "none" or "armed"
    lock,             \* self._connect_lock: holder and FIFO waiters
    ackWaiters,       \* self._ack_waiters: opcode -> owner of the future, 0 = no entry
    fut,              \* the futures held in init_fut / blk_fut of each task
    futResult,        \* the value last given to set_result() of each of them
    inbox,            \* notification frames sent by the device, not yet handled
    \* ---- the tasks calling into the instance ----
    pc,               \* where each task is suspended
    op,               \* the operation each task called last
    res,              \* how that operation ended: "ok" or the exception raised
    conn,             \* per task: the BleakClient its connect() works on
    up,               \* per task: the locals of upload_ringtone
    cb,               \* per task: the progress callback of the CLI
    \* ---- the facade's caches, events and calls (qingping.py) ----
    configuration,    \* self.configuration (Optional)
    cfgEvent,         \* self._configuration_event is set
    cfgSeen,          \* history: configuration frames handled since a call / a write
    alarms,           \* self.alarms: the ordered list
    alarmsBySlot,     \* self._alarms_by_slot: slot -> Optional entry
    alarmsEvent,      \* self._alarms_event is set
    published,        \* the last ALARMS_UPDATE sent on the event bus
    wire,             \* per task: the frames its current call has written
    call,             \* per task: the arguments and the stage of its call
    lastWrite,        \* history: the last completed write and the timer after it
    \* ---- custom ringtone slots (ringtones.py, cgd1.py) ----
    slotIter,         \* choose_next_custom_slot applied repeatedly to its result
    ring              \* the device's active signature and the CLI's auto-slot uploads

codecVars == <<cfg, cfgWire, cfgLast>>
alarmVars == <<alarm, alarmWire, alarmDecoded, alarmLast>>
connVars == <<client, clients, cfgNotifyStarted, disconnectTask>>
ackVars == <<ackWaiters, fut, futResult, inbox>>
taskVars == <<pc, op, res, conn>>
upVars == <<up, cb>>
ringVars == <<slotIter, ring>>
handlerVars == <<configuration, cfgEvent, cfgSeen, alarms, alarmsBySlot, alarmsEvent,
                 published>>
callVars == <<wire, call, lastWrite>>
facadeVars == <<ringVars, handlerVars, callVars>>
protoVars == <<connVars, lock, ackVars, taskVars, upVars, facadeVars>>
vars == <<codecVars, alarmVars, protoVars>>

(***************************************************************************)
(* Generic helpers                                                         *)
(***************************************************************************)
None == <<>>
Some(x) == <<x>>
IsNone(o) == o = <<>>
Val(o) == o[1]

Return(v) == [exc |-> "", val |-> v]
Raise(e) == [exc |-> e, val |-> <<>>]
Unset == [exc |-> "unset", val |-> <<>>]

RECURSIVE Pow2(_)
Pow2(k) == IF k = 0 THEN 1 ELSE 2 * Pow2(k - 1)

\* Bit k of the non-negative integer n:  (n >> k) & 1
Bit(n, k) == (n \div Pow2(k)) % 2

IsByte(x) == x \in 0..255
BoolByte(b) == IF b THEN 1 ELSE 0

Abs(v) == IF v < 0 THEN -v ELSE v

(***************************************************************************)
(* configuration.py : Configuration                                        *)
(***************************************************************************)

\* Configuration._byte_to_brightness
ByteToBrightness(int_value) ==
    [day |-> ((int_value \div 16) % 16) * 10, night |-> (int_value % 16) * 10]

\* Configuration.__init__: decode a 20-byte frame (13 02 ...)
Configuration(b) ==
    IF Len(b) < 20 THEN Raise("ValueError")
    ELSE Return(
      [ sound_volume         |-> b[3],
        hdr1                 |-> b[4],
        hdr2                 |-> b[5],
        timezone_offset      |-> b[7] * 6,     \* _timezone_offset: magnitude
        screen_light_time    |-> b[8],
        daytime_brightness   |-> ByteToBrightness(b[9]).day,
        nighttime_brightness |-> ByteToBrightness(b[9]).night,
        night_time_start_hour   |-> b[10],
        night_time_start_minute |-> b[11],
        night_time_end_hour     |-> b[12],
        night_time_end_minute   |-> b[13],
        tz_plus_flag         |-> (b[14] = 1),
        night_mode           |-> (b[15] = 1),
        reserved             |-> b[16],
        ringtone_signature   |-> SubSeq(b, 17, 20),
        language             |-> IF Bit(b[6], 0) = 0 THEN "ZH" ELSE "EN",
        use_24h_format       |-> (Bit(b[6], 1) = 0),
        use_celsius          |-> (Bit(b[6], 2) = 0),
        alarms_on            |-> (Bit(b[6], 4) = 0) ])

\* Configuration.timezone_offset (getter): signed minutes
TimezoneOffsetGet(c) ==
    IF c.tz_plus_flag THEN c.timezone_offset ELSE -c.timezone_offset

\* Configuration.timezone_offset (setter)
TimezoneOffsetSet(c, value) ==
    IF value > 720 \/ value < -720 THEN Raise("ValueError")
    ELSE Return([c EXCEPT !.timezone_offset = Abs(value),
                          !.tz_plus_flag = (value >= 0)])

\* Configuration.daytime_brightness (setter)
DaytimeBrightnessSet(c, value) ==
    IF value < 1 \/ value > 100 THEN Raise("ValueError")
    ELSE Return([c EXCEPT !.daytime_brightness = value])

\* Configuration.nighttime_brightness (setter)
NighttimeBrightnessSet(c, value) ==
    IF value < 1 \/ value > 100 THEN Raise("ValueError")
    ELSE Return([c EXCEPT !.nighttime_brightness = value])

\* Configuration.screen_light_time (setter)
ScreenLightTimeSet(c, value) ==
    IF value < 1 \/ value > 30 THEN Raise("ValueError")
    ELSE Return([c EXCEPT !.screen_light_time = value])

\* Configuration.night_mode_enabled (setter)
NightModeEnabledSet(c, value) ==
    Return(IF value
           THEN [c EXCEPT !.night_mode = TRUE,
                          !.night_time_start_hour = 21, !.night_time_start_minute = 0,
                          !.night_time_end_hour = 6, !.night_time_end_minute = 0]
           ELSE [c EXCEPT !.night_mode = FALSE,
                          !.night_time_start_hour = 0, !.night_time_start_minute = 0,
                          !.night_time_end_hour = 0, !.night_time_end_minute = 1])

\* Configuration._brightness_to_byte
BrightnessToByte(daytime_brightness, nighttime_brightness) ==
    IF ~(0 <= daytime_brightness /\ daytime_brightness <= 100)
         \/ daytime_brightness % 10 # 0 THEN Raise("ValueError")
    ELSE IF ~(0 <= nighttime_brightness /\ nighttime_brightness <= 100)
         \/ nighttime_brightness % 10 # 0 THEN Raise("ValueError")
    ELSE Return(<<(daytime_brightness \div 10) * 16 + (nighttime_brightness \div 10)>>)

\* The flags byte built by to_bytes (bits 0, 1, 2 and 4, each inverted)
ConfigByte(c) ==
      (IF c.language = "ZH" THEN 0 ELSE 1)
    + (IF c.use_24h_format THEN 0 ELSE 2)
    + (IF c.use_celsius THEN 0 ELSE 4)
    + (IF c.alarms_on THEN 0 ELSE 16)

\* The byte to_bytes appends for the timezone: self.timezone_offset // 6,
\* the SIGNED property floor-divided by 6.
TimezoneByte(c) == TimezoneOffsetGet(c) \div 6

\* Configuration.to_bytes: bytes([x]) raises ValueError for x outside 0..255
ConfigToBytes(c) ==
    LET bright == BrightnessToByte(c.daytime_brightness, c.nighttime_brightness)
        ints == << c.sound_volume, c.hdr1, c.hdr2, ConfigByte(c), TimezoneByte(c),
                   c.screen_light_time,
                   c.night_time_start_hour, c.night_time_start_minute,
                   c.night_time_end_hour, c.night_time_end_minute,
                   c.reserved >>
    IN  IF bright.exc # "" THEN bright
        ELSE IF \E i \in 1..Len(ints) : ~IsByte(ints[i]) THEN Raise("ValueError")
        ELSE LET bytes_result ==
                   << 19, 1, c.sound_volume, c.hdr1, c.hdr2, ConfigByte(c),
                      TimezoneByte(c), c.screen_light_time >>
                   \o bright.val
                   \o << c.night_time_start_hour, c.night_time_start_minute,
                         c.night_time_end_hour, c.night_time_end_minute,
                         BoolByte(c.tz_plus_flag), BoolByte(c.night_mode),
                         c.reserved >>
                   \o c.ringtone_signature
             IN  IF Len(bytes_result) # 20 THEN Raise("ValueError")
                 ELSE Return(bytes_result)

(***************************************************************************)
(* Configuration codec: state machine over one Configuration object        *)
(***************************************************************************)

\* Inbound configuration frames (13 02 + 18 bytes) the object is decoded
\* from.  The first one is the frame of the specification's scenario A.
FrameVolumes == {3}
FrameFlags == {0, 23}
FrameTzUnits == {0, 10}
FrameTzSigns == {0, 1}
FrameBacklights == {0, 5}
FrameBrightness == {85, 160}                 \* 0x55, 0xA0
FrameNight == { <<21, 0, 6, 0, 1>>, <<0, 0, 0, 1, 0>> }
FrameSignatures == { <<100, 100, 100, 100>> }

ConfigFrame(vol, flags, tz, backlight, bright, night, sign, sig) ==
    << 19, 2, vol, 88, 2, flags, tz, backlight, bright,
       night[1], night[2], night[3], night[4], sign, night[5], 0 >> \o sig

ConfigFrames ==
    { ConfigFrame(vol, flags, tz, bl, br, n, sg, sig) :
        vol \in FrameVolumes, flags \in FrameFlags, tz \in FrameTzUnits,
        bl \in FrameBacklights, br \in FrameBrightness, n \in FrameNight,
        sg \in FrameTzSigns, sig \in FrameSignatures }

ScenarioAFrame ==
    << 19, 2, 3, 88, 2, 0, 10, 5, 85, 21, 0, 6, 0, 1, 1, 0, 100, 100, 100, 100 >>

TzInputs == {-726, -720, -6, 7, 720, 726}
BrightnessInputs == {0, 5, 100, 105}

CfgIdle ==
    /\ cfg = Configuration(ScenarioAFrame).val
    /\ cfgWire = Unset
    /\ cfgLast = [op |-> "init", value |-> 0, result |-> "", before |-> cfg]

CfgInit ==
    /\ cfg \in { Configuration(f).val : f \in ConfigFrames }
    /\ cfgWire = Unset
    /\ cfgLast = [op |-> "init", value |-> 0, result |-> "", before |-> cfg]

\* A façade operation that assigns one property and then encodes the
\* configuration for _write_config: the assignment may raise, and so may
\* to_bytes; cfgWire is what reaches _write_config.
CfgAssignThenEncode(property, value, r) ==
    /\ cfg' = IF r.exc = "" THEN r.val ELSE cfg
    /\ cfgLast' = [op |-> property, value |-> value, result |-> r.exc, before |-> cfg]
    /\ cfgWire' = IF r.exc = "" THEN ConfigToBytes(r.val) ELSE Unset
    /\ UNCHANGED <<alarmVars, protoVars>>

\* Qingping.set_time, timezone part (after the timestamp write)
SetTimeTimezone(value) ==
    /\ TimezoneOffsetGet(cfg) # value
    /\ CfgAssignThenEncode("timezone_offset", value, TimezoneOffsetSet(cfg, value))

\* Qingping.set_daytime_brightness
SetDaytimeBrightness(value) ==
    CfgAssignThenEncode("daytime_brightness", value, DaytimeBrightnessSet(cfg, value))

\* Qingping.set_nighttime_brightness
SetNighttimeBrightness(value) ==
    CfgAssignThenEncode("nighttime_brightness", value, NighttimeBrightnessSet(cfg, value))

\* Qingping.set_night_mode
SetNightMode(value) ==
    CfgAssignThenEncode("night_mode_enabled", BoolByte(value), NightModeEnabledSet(cfg, value))

\* Configuration.to_bytes on the object as it stands
CfgToBytes ==
    /\ cfgWire' = ConfigToBytes(cfg)
    /\ cfgLast' = [op |-> "to_bytes", value |-> 0, result |-> cfgWire'.exc, before |-> cfg]
    /\ UNCHANGED cfg
    /\ UNCHANGED <<alarmVars, protoVars>>

CfgNext ==
    \/ \E v \in TzInputs : SetTimeTimezone(v)
    \/ \E v \in BrightnessInputs : SetDaytimeBrightness(v)
    \/ \E v \in BrightnessInputs : SetNighttimeBrightness(v)
    \/ \E v \in BOOLEAN : SetNightMode(v)
    \/ CfgToBytes

(***************************************************************************)
(* alarm.py : Alarm                                                        *)
(***************************************************************************)
ALARM_SLOTS_COUNT == 16

\* AlarmDay: MONDAY = 1 .. SUNDAY = 7
AlarmDay == 1..7

EmptyEntry == <<255, 255, 255, 255, 255>>

\* Alarm._bitmask_to_days: day d is present iff bit d-1 is set
BitmaskToDays(bitmask) == { d \in AlarmDay : Bit(bitmask, d - 1) = 1 }

RECURSIVE SumBits(_)
SumBits(days) ==
    IF days = {} THEN 0
    ELSE LET d == CHOOSE x \in days : TRUE
         IN  Pow2(d - 1) + SumBits(days \ {d})

\* A bit table shifted by one: MONDAY = 1 << 1 .. SUNDAY = 1 << 7
DaysToBitmaskShifted(days) == 2 * SumBits(days)

\* Alarm._days_to_bitmask: the OR of 1 << (d-1) over the days
DaysToBitmask(days) == SumBits(days)

\* Alarm.__init__
Alarm(slot, alarm_bytes) ==
    IF alarm_bytes = EmptyEntry
    THEN [slot |-> slot, is_enabled |-> None, hour |-> None, minute |-> None,
          days |-> None, snooze |-> None]
    ELSE [slot |-> slot,
          is_enabled |-> Some(alarm_bytes[1] = 1),
          hour |-> Some(alarm_bytes[2]),
          minute |-> Some(alarm_bytes[3]),
          days |-> Some(BitmaskToDays(alarm_bytes[4])),
          snooze |-> Some(alarm_bytes[5] = 1)]

\* is_configured that looks at the enabled flag only
IsConfiguredEnabledOnly(a) == ~IsNone(a.is_enabled)

\* Alarm.is_configured
IsConfigured(a) ==
    /\ ~IsNone(a.is_enabled)
    /\ ~IsNone(a.hour)
    /\ ~IsNone(a.minute)
    /\ ~IsNone(a.days)
    /\ ~IsNone(a.snooze)

\* 0x01 if flag else 0x00: None is falsy
FlagByte(o) == IF ~IsNone(o) /\ Val(o) THEN 1 ELSE 0

\* Alarm.to_bytes: 07 05 <slot> + 5 bytes.  bytes() raises TypeError on a
\* None element (as does iterating days = None) and ValueError on an
\* element outside 0..255.
AlarmToBytes(a) ==
    IF IsConfigured(a)
    THEN IF IsNone(a.hour) \/ IsNone(a.minute) \/ IsNone(a.days)
         THEN Raise("TypeError")
         ELSE LET byte_array == << 7, 5, a.slot, FlagByte(a.is_enabled),
                                   Val(a.hour), Val(a.minute),
                                   DaysToBitmask(Val(a.days)), FlagByte(a.snooze) >>
              IN  IF \E i \in 1..8 : ~IsByte(byte_array[i])
                  THEN Raise("ValueError") ELSE Return(byte_array)
    ELSE IF ~IsByte(a.slot) THEN Raise("ValueError")
    ELSE Return(<<7, 5, a.slot>> \o EmptyEntry)

\* Alarm.deactivate
Deactivate(a) ==
    [a EXCEPT !.is_enabled = None, !.hour = None, !.minute = None,
              !.days = None, !.snooze = None]

\* The field merge of Qingping.set_alarm: only the arguments that are not
\* None are assigned; time assigns hour and minute together.
MergeAlarm(a, is_enabled, time, days, snooze) ==
    [a EXCEPT
       !.is_enabled = IF IsNone(is_enabled) THEN @ ELSE is_enabled,
       !.hour = IF IsNone(time) THEN @ ELSE Some(Val(time)[1]),
       !.minute = IF IsNone(time) THEN @ ELSE Some(Val(time)[2]),
       !.days = IF IsNone(days) THEN @ ELSE days,
       !.snooze = IF IsNone(snooze) THEN @ ELSE snooze]

(***************************************************************************)
(* Alarm codec: state machine over one Alarm object                        *)
(***************************************************************************)
AlarmSlots == {0, 15}
AlarmEntries == { EmptyEntry, <<1, 7, 30, 31, 1>>, <<0, 23, 59, 127, 0>>,
                  <<1, 6, 0, 193, 0>> }
OptBool == {None, Some(TRUE), Some(FALSE)}
OptTimes == {None, Some(<<23, 59>>)}
OptDays == {None, Some({}), Some({1, 2, 3, 4, 5, 7})}

AlarmIdle ==
    /\ alarm = Alarm(0, EmptyEntry)
    /\ alarmWire = Unset
    /\ alarmDecoded = None
    /\ alarmLast = [op |-> "init"]

AlarmInit ==
    /\ alarm \in { Alarm(s, e) : s \in AlarmSlots, e \in AlarmEntries }
    /\ alarmWire = Unset
    /\ alarmDecoded = None
    /\ alarmLast = [op |-> "init"]

\* Qingping.set_alarm, from the merge on: an unconfigured result raises
\* ValidationError before anything is encoded; the merged fields stay.
AlarmSet(is_enabled, time, days, snooze) ==
    LET merged == MergeAlarm(alarm, is_enabled, time, days, snooze)
    IN  /\ alarm' = merged
        /\ alarmWire' = IF IsConfigured(merged) THEN AlarmToBytes(merged) ELSE Unset
        /\ alarmDecoded' = None
        /\ alarmLast' = [op |-> "set"]
        /\ UNCHANGED <<codecVars, protoVars>>

\* Qingping.delete_alarm: deactivate, then encode
AlarmDelete ==
    /\ alarm' = Deactivate(alarm)
    /\ alarmWire' = AlarmToBytes(alarm')
    /\ alarmDecoded' = None
    /\ alarmLast' = [op |-> "delete"]
    /\ UNCHANGED <<codecVars, protoVars>>

\* Alarm.to_bytes on the object as it stands
AlarmEncode ==
    /\ alarmWire' = AlarmToBytes(alarm)
    /\ alarmDecoded' = None
    /\ alarmLast' = [op |-> "to_bytes"]
    /\ UNCHANGED alarm
    /\ UNCHANGED <<codecVars, protoVars>>

\* The record comes back: Alarm(slot, entry) on the slot byte and the five
\* payload bytes of the encoded record
AlarmDecodeWire ==
    /\ alarmWire.exc = ""
    /\ alarmDecoded = None
    /\ alarmDecoded' = Some(Alarm(alarmWire.val[3], SubSeq(alarmWire.val, 4, 8)))
    /\ UNCHANGED <<alarm, alarmWire, alarmLast>>
    /\ UNCHANGED <<codecVars, protoVars>>

AlarmNext ==
    \/ \E e \in OptBool, t \in OptTimes, d \in OptDays, s \in OptBool :
          AlarmSet(e, t, d, s)
    \/ AlarmDelete
    \/ AlarmEncode
    \/ AlarmDecodeWire

(***************************************************************************)
(* qingping.py : the Qingping instance, its tasks and the transport        *)
(***************************************************************************)
Tasks == {1, 2}

\* Bound on the BleakClient objects created, i.e. on connect attempts
MaxClients == 1
\* Bound on the notification frames in flight from the device
MaxInbox == 1

AUDIO_PACKET_SIZE == 128
AUDIO_BLOCK_PACKETS == 4
OP_INIT == 16        \* 0x10: ack of the init frame
OP_BLOCK == 8        \* 0x08: ack of a data block
Opcodes == {OP_INIT, OP_BLOCK}
AUDIO_ACK_PREFIX == <<4, 255>>

UpIdle == [size |-> 0, sigLen |-> 4, blk |-> 0, pkt |-> 0, sent |-> 0,
           pkts |-> 0, initWritten |-> FALSE, rearmedPending |-> FALSE,
           superseded |-> {}, frame |-> <<>>]
CbIdle == [calls |-> 0, p |-> 0, prev_p |-> 0, last_pct |-> -1, prev_pct |-> -1,
           printed |-> FALSE]

\* No signature chosen, no auto-slot upload made
RingIdle ==
    /\ slotIter = [cur |-> <<>>, prev |-> <<>>, n |-> 0]
    /\ ring = [active |-> <<253, 195, 102, 165>>, current |-> <<>>, target |-> <<>>,
               prev |-> <<>>, prevOk |-> FALSE, n |-> 0, phase |-> "idle"]

Slots == 0..(ALARM_SLOTS_COUNT - 1)

\* The keys _alarms_by_slot could be given: every slot index (base index +
\* offset) that a fragment of the device carries
SlotIndices == 0..(ALARM_SLOTS_COUNT + 1)

CallIdle == [tz |-> <<>>, stage |-> "", obj |-> <<>>, slot |-> 0, fields |-> <<>>]

\* Qingping.__init__: no configuration, no alarms, both events clear
CachesInit ==
    /\ configuration = <<>>
    /\ cfgEvent = FALSE
    /\ cfgSeen = [sinceCall |-> FALSE, sinceWrite |-> FALSE, frame |-> <<>>,
                  age |-> "fresh"]
    /\ alarms = <<>>
    /\ alarmsBySlot = [i \in SlotIndices |-> <<>>]
    /\ alarmsEvent = FALSE
    /\ published = [kind |-> "none", list |-> <<>>, dropped |-> 0]
    /\ wire = [t \in Tasks |-> <<>>]
    /\ call = [t \in Tasks |-> CallIdle]
    /\ lastWrite = [kind |-> "none", rearmed |-> FALSE]

\* The parts of the state outside the connection manager and the upload
\* engine, at rest
FacadeIdle == RingIdle /\ CachesInit

\* Qingping.__init__
ProtoInit ==
    /\ client = 0
    /\ clients = <<>>
    /\ cfgNotifyStarted = FALSE
    /\ disconnectTask = "none"
    /\ lock = [holder |-> 0, waiters |-> <<>>]
    /\ ackWaiters = [o \in Opcodes |-> 0]
    /\ fut = [t \in Tasks |-> [o \in Opcodes |-> "none"]]
    /\ futResult = [t \in Tasks |-> [o \in Opcodes |-> <<>>]]
    /\ inbox = <<>>
    /\ pc = [t \in Tasks |-> "idle"]
    /\ op = [t \in Tasks |-> "none"]
    /\ res = [t \in Tasks |-> "none"]
    /\ conn = [t \in Tasks |-> 0]
    /\ up = [t \in Tasks |-> UpIdle]
    /\ cb = [t \in Tasks |-> CbIdle]

CodecsUnchanged == UNCHANGED <<codecVars, alarmVars, facadeVars>>

\* self.client and self.client.is_connected
IsConnected(c) == c # 0 /\ clients[c].state = "connected"

\* disconnects counts the DEVICE_DISCONNECT events sent for the client;
\* announced tells that DEVICE_CONNECT was sent for it
NewClient == [state |-> "created", auth1 |-> FALSE, auth2 |-> FALSE, notify |-> FALSE,
              disconnects |-> 0, announced |-> FALSE]

\* asyncio.Lock.release: the lock passes to the first waiter, which resumes
\* inside connect()
Released ==
    IF lock.waiters = <<>> THEN [holder |-> 0, waiters |-> <<>>]
    ELSE [holder |-> Head(lock.waiters), waiters |-> Tail(lock.waiters)]
WokenPc ==
    IF lock.waiters = <<>> THEN pc ELSE [pc EXCEPT ![Head(lock.waiters)] = "c_locked"]

\* The operation of task t ends: normally (r = "ok") or by raising r
Ended(t, r, pcs) ==
    /\ pc' = [pcs EXCEPT ![t] = "idle"]
    /\ res' = [res EXCEPT ![t] = r]

\* How an awaited transport call on self.client resumes: normally while the
\* connection is up; once it is down the call may have raised or may have
\* completed just before.
TransportOutcomes(c) == IF IsConnected(c) THEN {"ok"} ELSE {"ok", "BleakError"}

----------------------------------------------------------------------------
\* A task calls _ensure_connected(): wait_for() schedules wait_for_connected()
CallEnsureConnected(t) ==
    /\ pc[t] = "idle"
    /\ pc' = [pc EXCEPT ![t] = "ec_start"]
    /\ op' = [op EXCEPT ![t] = "ensure_connected"]
    /\ res' = [res EXCEPT ![t] = "running"]
    /\ UNCHANGED <<connVars, lock, ackVars, conn, upVars>>
    /\ CodecsUnchanged

\* A lock that lets every caller in
LockAlwaysFree == TRUE

\* async with self._connect_lock: the lock is acquired at once when nobody
\* holds it or waits for it
LockFree == lock.holder = 0 /\ lock.waiters = <<>>

\* wait_for_connected(): the while test; when it fails, connect() is entered
\* and runs up to its first suspension (the lock, or the scan).  With the
\* lock free nothing can change between the while test and connect()'s own
\* test of the handle.
EnsureLoop(t) ==
    /\ pc[t] \in {"ec_start", "ec_retry"}
    /\ IF IsConnected(client)
       THEN /\ pc' = [pc EXCEPT ![t] = "ec_done"]
            /\ conn' = [conn EXCEPT ![t] = client]
            /\ UNCHANGED lock
       ELSE IF LockFree
       THEN /\ lock' = [lock EXCEPT !.holder = t]
            /\ pc' = [pc EXCEPT ![t] = "c_scan"]
            /\ UNCHANGED conn
       ELSE /\ lock' = [lock EXCEPT !.waiters = Append(@, t)]
            /\ pc' = [pc EXCEPT ![t] = "c_wait"]
            /\ UNCHANGED conn
    /\ UNCHANGED <<connVars, ackVars, op, res, upVars>>
    /\ CodecsUnchanged

\* connect(), resumed holding the lock after waiting for it
ConnectLocked(t) ==
    /\ pc[t] = "c_locked"
    /\ IF IsConnected(client)
       THEN \* return True
            /\ lock' = Released
            /\ pc' = [WokenPc EXCEPT ![t] = "ec_done"]
            /\ conn' = [conn EXCEPT ![t] = client]
       ELSE /\ pc' = [pc EXCEPT ![t] = "c_scan"]
            /\ UNCHANGED <<lock, conn>>
    /\ UNCHANGED <<connVars, ackVars, op, res, upVars>>
    /\ CodecsUnchanged

\* The scan ends (device found or not: the target is then the address);
\* self.client = BleakClient(target); client.connect() is awaited
ConnectScannedUpTo(t, limit) ==
    /\ pc[t] = "c_scan"
    /\ Len(clients) < limit
    /\ clients' = Append(clients, NewClient)
    /\ client' = Len(clients) + 1
    /\ conn' = [conn EXCEPT ![t] = Len(clients) + 1]
    /\ pc' = [pc EXCEPT ![t] = "c_connecting"]
    /\ UNCHANGED <<cfgNotifyStarted, disconnectTask, lock, ackVars, op, res, upVars>>
    /\ CodecsUnchanged

ConnectScanned(t) == ConnectScannedUpTo(t, MaxClients)

\* The transport connection is established; the settle delay starts
ConnectOpened(t) ==
    /\ pc[t] = "c_connecting"
    /\ clients' = [clients EXCEPT ![conn[t]].state = "connected"]
    /\ pc' = [pc EXCEPT ![t] = "c_settle"]
    /\ UNCHANGED <<client, cfgNotifyStarted, disconnectTask, lock, ackVars, op, res,
                   conn, upVars>>
    /\ CodecsUnchanged

\* client.connect() raises: self.client = None, return False; the caller
\* sleeps RETRY_INTERVAL
ConnectFailed(t) ==
    /\ pc[t] = "c_connecting"
    /\ clients' = [clients EXCEPT ![conn[t]].state = "closed"]
    /\ client' = 0
    /\ lock' = Released
    /\ pc' = [WokenPc EXCEPT ![t] = "ec_retry"]
    /\ UNCHANGED <<cfgNotifyStarted, disconnectTask, ackVars, op, res, conn, upVars>>
    /\ CodecsUnchanged

\* After the settle delay: _write_gatt_char(MAIN_CHAR, 11 01 + token)
ConnectAuth1(t) ==
    /\ pc[t] = "c_settle"
    /\ IF IsConnected(client)
       THEN /\ clients' = [clients EXCEPT ![client].auth1 = TRUE]
            /\ pc' = [pc EXCEPT ![t] = "c_auth1"]
            /\ UNCHANGED <<lock, res>>
       ELSE /\ lock' = Released
            /\ Ended(t, "NotConnectedError", WokenPc)
            /\ UNCHANGED clients
    /\ UNCHANGED <<client, cfgNotifyStarted, disconnectTask, ackVars, op, conn, upVars>>
    /\ CodecsUnchanged

\* The first write returns: _write_gatt_char(MAIN_CHAR, 11 02 + token)
ConnectAuth2(t) ==
    /\ pc[t] = "c_auth1"
    /\ \E w \in TransportOutcomes(client) :
         IF w = "ok" /\ IsConnected(client)
         THEN /\ clients' = [clients EXCEPT ![client].auth2 = TRUE]
              /\ pc' = [pc EXCEPT ![t] = "c_auth2"]
              /\ UNCHANGED <<lock, res>>
         ELSE /\ lock' = Released
              /\ Ended(t, IF w = "ok" THEN "NotConnectedError" ELSE w, WokenPc)
              /\ UNCHANGED clients
    /\ UNCHANGED <<client, cfgNotifyStarted, disconnectTask, ackVars, op, conn, upVars>>
    /\ CodecsUnchanged

\* The second write returns: the connected event is sent and
\* self.client.start_notify(...) is awaited (AttributeError when the
\* disconnect callback has set self.client to None)
ConnectSubscribe(t) ==
    /\ pc[t] = "c_auth2"
    /\ \E w \in TransportOutcomes(client) :
         IF w = "ok" /\ IsConnected(client)
         THEN /\ conn' = [conn EXCEPT ![t] = client]
              /\ clients' = [clients EXCEPT ![client].announced = TRUE]
              /\ pc' = [pc EXCEPT ![t] = "c_notify"]
              /\ UNCHANGED <<lock, res>>
         ELSE /\ lock' = Released
              /\ Ended(t, IF w # "ok" THEN w
                          ELSE IF client = 0 THEN "AttributeError" ELSE "BleakError",
                       WokenPc)
              /\ UNCHANGED <<conn, clients>>
    /\ UNCHANGED <<client, cfgNotifyStarted, disconnectTask, ackVars, op, upVars>>
    /\ CodecsUnchanged

\* start_notify returns: _cfg_notify_started = True; return True
ConnectDone(t) ==
    /\ pc[t] = "c_notify"
    /\ \E w \in TransportOutcomes(conn[t]) :
         IF w = "ok"
         THEN /\ clients' = [clients EXCEPT ![conn[t]].notify = TRUE]
              /\ cfgNotifyStarted' = TRUE
              /\ lock' = Released
              /\ pc' = [WokenPc EXCEPT ![t] = "ec_done"]
              /\ UNCHANGED res
         ELSE /\ lock' = Released
              /\ Ended(t, w, WokenPc)
              /\ UNCHANGED <<clients, cfgNotifyStarted>>
    /\ UNCHANGED <<client, disconnectTask, ackVars, op, conn, upVars>>
    /\ CodecsUnchanged

\* The places where wait_for_connected() is suspended
EnsureSuspended ==
    {"ec_retry", "c_wait", "c_locked", "c_scan", "c_connecting", "c_settle",
     "c_auth1", "c_auth2", "c_notify"}

\* A timeout handler that swallows the expiry and lets the loop go on
EnsureTimeoutSwallowed(t) ==
    /\ pc[t] \in EnsureSuspended
    /\ lock' = IF lock.holder = t THEN Released
               ELSE [lock EXCEPT !.waiters = SelectSeq(@, LAMBDA x : x # t)]
    /\ pc' = [(IF lock.holder = t THEN WokenPc ELSE pc) EXCEPT ![t] = "ec_retry"]
    /\ clients' = IF pc[t] = "c_connecting"
                  THEN [clients EXCEPT ![conn[t]].state = "closed"] ELSE clients
    /\ UNCHANGED <<client, cfgNotifyStarted, disconnectTask, ackVars, op, res, conn,
                   upVars>>
    /\ CodecsUnchanged

\* CONNECTION_TIMEOUT expires: wait_for cancels wait_for_connected() where it
\* is suspended (the lock is released by `async with`; self.client is left
\* as it is) and NotConnectedError("Connection timeout") is raised
EnsureTimeout(t) ==
    /\ pc[t] \in EnsureSuspended
    /\ lock' = IF lock.holder = t THEN Released
               ELSE [lock EXCEPT !.waiters = SelectSeq(@, LAMBDA x : x # t)]
    /\ Ended(t, "NotConnectedError", IF lock.holder = t THEN WokenPc ELSE pc)
    /\ clients' = IF pc[t] = "c_connecting"
                  THEN [clients EXCEPT ![conn[t]].state = "closed"] ELSE clients
    /\ UNCHANGED <<client, cfgNotifyStarted, disconnectTask, ackVars, op, conn, upVars>>
    /\ CodecsUnchanged

\* The transport loses the connection of client c: is_connected turns
\* false and the frames in flight are lost; the callback is yet to run
TransportDrop(c) ==
    /\ clients[c].state = "connected"
    /\ clients' = [clients EXCEPT ![c].state = "closing"]
    /\ inbox' = <<>>
    /\ UNCHANGED <<client, cfgNotifyStarted, disconnectTask, lock, ackWaiters, fut, futResult,
                   taskVars, upVars>>
    /\ CodecsUnchanged

\* A disconnect callback that leaves the handle and the timer in place
OnDisconnectKeepsHandle(c) ==
    /\ clients[c].state = "closing"
    /\ clients' = [clients EXCEPT ![c].state = "closed", ![c].disconnects = @ + 1]
    /\ UNCHANGED <<client, disconnectTask>>
    /\ UNCHANGED <<cfgNotifyStarted, lock, ackVars, taskVars, upVars>>
    /\ CodecsUnchanged

\* Qingping._on_disconnect, called by the transport for client c: the
\* timer is cancelled and cleared, the handle is cleared, DEVICE_DISCONNECT
\* is sent
OnDisconnect(c) ==
    /\ clients[c].state = "closing"
    /\ clients' = [clients EXCEPT ![c].state = "closed", ![c].disconnects = @ + 1]
    /\ disconnectTask' = "none"
    /\ client' = 0
    /\ UNCHANGED <<cfgNotifyStarted, lock, ackVars, taskVars, upVars>>
    /\ CodecsUnchanged

----------------------------------------------------------------------------
\* Qingping._arm_ack: a pending waiter already registered for the opcode is
\* cancelled, then the new future replaces it
\* An _arm_ack that leaves the registered waiter as it is
KeepOld(opcode) == fut

\* old = self._ack_waiters.get(opcode); if old and not old.done(): old.cancel()
CancelOld(opcode) ==
    LET old == ackWaiters[opcode]
    IN  IF old # 0 /\ fut[old][opcode] = "pending"
        THEN [fut EXCEPT ![old][opcode] = "cancelled"] ELSE fut

ArmedFut(t, opcode) == [CancelOld(opcode) EXCEPT ![t][opcode] = "pending"]

\* The upload state of task t once it has armed a waiter for the opcode:
\* the future the task armed before for that opcode, if any, is on record
\* with the state the new _arm_ack leaves it in
Superseding(t, opcode, u) ==
    IF fut[t][opcode] = "none" THEN u
    ELSE [u EXCEPT !.superseded = @ \cup {<<opcode, CancelOld(opcode)[t][opcode]>>}]

\* An _arm_ack whose future is not in the registry yet when it returns
NotInstalled(t, opcode) == ackWaiters

\* self._ack_waiters[opcode] = fut
ArmedWaiters(t, opcode) == [ackWaiters EXCEPT ![opcode] = t]

\* The device may answer a frame with an ack notification, provided the
\* client has subscribed: 04 FF 10 for the init frame, 04 FF 08 <status>
\* for a block
AckFrame(opcode) ==
    IF opcode = OP_INIT THEN AUDIO_ACK_PREFIX \o <<OP_INIT>>
    ELSE AUDIO_ACK_PREFIX \o <<OP_BLOCK, 0>>
DeviceMayAck(c, opcode) ==
    \E acks \in BOOLEAN :
        inbox' = IF acks /\ clients[c].notify /\ Len(inbox) < MaxInbox
                 THEN Append(inbox, AckFrame(opcode)) ELSE inbox

\* A clear() that keeps every entry
KeepSnapshot(by_slot) == by_slot

\* self._alarms_by_slot.clear()
ClearSnapshot(by_slot) == [i \in SlotIndices |-> None]

\* A completeness test satisfied by any entry
SnapshotCompleteEarly(by_slot) == \E i \in SlotIndices : by_slot[i] # None

\* len(self._alarms_by_slot) >= ALARM_SLOTS_COUNT
SnapshotComplete(by_slot) ==
    Cardinality({i \in SlotIndices : by_slot[i] # None}) >= ALARM_SLOTS_COUNT

\* sorted(self._alarms_by_slot): the slots present, ascending
RECURSIVE SortedSlots(_)
SortedSlots(S) ==
    IF S = {} THEN <<>>
    ELSE LET m == CHOOSE x \in S : \A y \in S : x <= y
         IN  <<m>> \o SortedSlots(S \ {m})

\* [self._alarms_by_slot[i] for i in order]
AlarmList(by_slot, order) ==
    [k \in 1..Len(order) |-> Val(by_slot[order[k]]).alarm]

\* A handler that stores every entry of a fragment
EntryKeptAny(slot) == TRUE

\* if slot < 0 or slot >= ALARM_SLOTS_COUNT: continue
EntryKept(slot) == ~(slot < 0 \/ slot >= ALARM_SLOTS_COUNT)

\* The alarm branch of the handler: 11 06 <base index> + 5-byte entries.
\* Each entry of the map is an Alarm object with two marks: fresh, merged
\* since the most recent base-0 fragment (history), and shared, the very
\* object that self.alarms holds for the slot.
HandleAlarms(payload) ==
    LET base_index == payload[3]
        body == SubSeq(payload, 4, Len(payload))
        entry_count == Len(body) \div 5
        aged == IF base_index = 0
                THEN [i \in SlotIndices |->
                        IF alarmsBySlot[i] = None THEN None
                        ELSE Some([Val(alarmsBySlot[i]) EXCEPT !.fresh = FALSE])]
                ELSE alarmsBySlot
        kept == IF base_index = 0 THEN ClearSnapshot(aged) ELSE aged
        merged == [slot \in SlotIndices |->
                     IF slot >= base_index /\ slot - base_index < entry_count
                        /\ EntryKept(slot)
                     THEN LET i == slot - base_index
                          IN  Some([alarm |-> Alarm(slot, SubSeq(body, i * 5 + 1,
                                                                 (i + 1) * 5)),
                                    fresh |-> TRUE,
                                    shared |-> FALSE])
                     ELSE kept[slot]]
        present == {i \in SlotIndices : merged[i] # None}
        \* history: how many entries the clear of this run discarded
        dropped == Cardinality({i \in SlotIndices :
                                  alarmsBySlot[i] # None /\ kept[i] = None})
    IN  IF SnapshotComplete(merged)
        THEN IF ~(Slots \subseteq present)
             THEN \* KeyError in the list comprehension
                  /\ alarmsBySlot' = merged
                  /\ UNCHANGED <<alarms, alarmsEvent, published>>
             ELSE /\ alarms' = AlarmList(merged, SortedSlots(Slots))
                  /\ alarmsBySlot' = [i \in SlotIndices |->
                                        IF i \in Slots
                                        THEN Some([Val(merged[i]) EXCEPT !.shared = TRUE])
                                        ELSE merged[i]]
                  /\ alarmsEvent' = TRUE
                  /\ published' = [kind |-> "complete",
                                   list |-> AlarmList(merged, SortedSlots(Slots)),
                                   dropped |-> dropped]
        ELSE /\ alarmsBySlot' = merged
             /\ published' = [kind |-> "partial",
                              list |-> AlarmList(merged, SortedSlots(present)),
                              dropped |-> dropped]
             /\ UNCHANGED <<alarms, alarmsEvent>>

\* The configuration branch of the handler: 13 02 ...
HandleConfiguration(payload) ==
    LET decoded == Configuration(payload)
    IN  IF decoded.exc # ""
        THEN UNCHANGED <<configuration, cfgEvent, cfgSeen>>
        ELSE /\ configuration' = Some(decoded.val)
             /\ cfgEvent' = TRUE
             /\ cfgSeen' = [sinceCall |-> TRUE, sinceWrite |-> TRUE,
                            frame |-> Some(payload), age |-> "fresh"]

StartsWith(payload, prefix) ==
    Len(payload) >= Len(prefix) /\ SubSeq(payload, 1, Len(prefix)) = prefix

\* A routing that takes an alarms frame for a configuration frame
AlarmsAsConfiguration(payload) ==
    IF StartsWith(payload, AUDIO_ACK_PREFIX) /\ Len(payload) >= 3 THEN "ack"
    ELSE IF StartsWith(payload, <<19, 2>>) \/ StartsWith(payload, <<17, 6>>)
    THEN "configuration"
    ELSE "ignored"

\* A routing that takes an 11 06 frame of any length for an alarms frame
ShortAlarmsAdmitted(payload) ==
    IF StartsWith(payload, AUDIO_ACK_PREFIX) /\ Len(payload) >= 3 THEN "ack"
    ELSE IF StartsWith(payload, <<19, 2>>) THEN "configuration"
    ELSE IF StartsWith(payload, <<17, 6>>) /\ Len(payload) >= 3 THEN "alarms"
    ELSE "ignored"

\* The same tests with the 4-byte audio ack tried first
StatusBranchFirst(payload) ==
    IF StartsWith(payload, AUDIO_ACK_PREFIX) /\ Len(payload) >= 4 THEN "ack_status"
    ELSE IF StartsWith(payload, AUDIO_ACK_PREFIX) /\ Len(payload) >= 3 THEN "ack"
    ELSE IF StartsWith(payload, <<19, 2>>) THEN "configuration"
    ELSE IF StartsWith(payload, <<17, 6>>) /\ Len(payload) >= 3 + 5 THEN "alarms"
    ELSE "ignored"

\* The tests of _notification_handler in the order of the source: the
\* 3-byte audio ack, the 4-byte audio ack with a status, the configuration
\* frame, the alarms frame
HandlerBranch(payload) ==
    IF StartsWith(payload, AUDIO_ACK_PREFIX) /\ Len(payload) >= 3 THEN "ack"
    ELSE IF StartsWith(payload, AUDIO_ACK_PREFIX) /\ Len(payload) >= 4 THEN "ack_status"
    ELSE IF StartsWith(payload, <<19, 2>>) THEN "configuration"
    ELSE IF StartsWith(payload, <<17, 6>>) /\ Len(payload) >= 3 + 5 THEN "alarms"
    ELSE "ignored"

\* A handler that resolves whatever future it has popped
AnyPopped(owner, opcode) == owner # 0

\* A handler that resolves a future only while its task is awaiting it
PoppedAndAwaited(owner, opcode) ==
    owner # 0 /\ fut[owner][opcode] = "pending" /\ pc[owner] = "u_init_wait"

\* if fut and not fut.done()
PoppedNotDone(owner, opcode) == owner # 0 /\ fut[owner][opcode] = "pending"

\* An audio-ack branch: pop the waiter of the opcode and, if it is not
\* done, set_result(value)
HandleAck(opcode, value) ==
    LET owner == IF opcode \in Opcodes THEN ackWaiters[opcode] ELSE 0
    IN  /\ ackWaiters' = IF opcode \in Opcodes
                         THEN [ackWaiters EXCEPT ![opcode] = 0] ELSE ackWaiters
        /\ IF PoppedNotDone(owner, opcode)
           THEN /\ fut' = [fut EXCEPT ![owner][opcode] = "result"]
                /\ futResult' = [futResult EXCEPT ![owner][opcode] = Some(value)]
           ELSE UNCHANGED <<fut, futResult>>
        /\ UNCHANGED handlerVars

\* Qingping._notification_handler.  The 3-byte branch resolves with the
\* whole payload, the 4-byte branch with the status byte.
NotificationHandler(payload) ==
    LET branch == HandlerBranch(payload)
    IN  IF branch = "ack"
        THEN HandleAck(payload[3], [kind |-> "payload", value |-> payload])
        ELSE IF branch = "ack_status"
        THEN HandleAck(payload[3], [kind |-> "status", value |-> <<payload[4]>>])
        ELSE IF branch = "configuration"
        THEN /\ HandleConfiguration(payload)
             /\ UNCHANGED <<ackWaiters, fut, futResult, alarms, alarmsBySlot,
                            alarmsEvent, published>>
        ELSE IF branch = "alarms"
        THEN /\ HandleAlarms(payload)
             /\ UNCHANGED <<ackWaiters, fut, futResult, configuration, cfgEvent,
                            cfgSeen>>
        ELSE UNCHANGED <<ackWaiters, fut, futResult, handlerVars>>

\* The transport delivers the oldest notification to the handler
NotifyDeliver ==
    /\ inbox # <<>>
    /\ \E c \in 1..Len(clients) : clients[c].state = "connected" /\ clients[c].notify
    /\ NotificationHandler(Head(inbox))
    /\ inbox' = Tail(inbox)
    /\ UNCHANGED <<connVars, lock, taskVars, upVars>>
    /\ UNCHANGED <<codecVars, alarmVars, ringVars, callVars>>

----------------------------------------------------------------------------
Min(a, b) == IF a < b THEN a ELSE b

BlockSize == AUDIO_PACKET_SIZE * AUDIO_BLOCK_PACKETS
TotalBlocks(size) == (size + BlockSize - 1) \div BlockSize

\* An audio_len that takes every packet for a full one
AudioLenFull(size, block_num, pkt_idx) == AUDIO_PACKET_SIZE

\* audio_len of packet pkt_idx of block block_num
AudioLen(size, block_num, pkt_idx) ==
    LET pkt_off == block_num * BlockSize + pkt_idx * AUDIO_PACKET_SIZE
    IN  IF pkt_off >= size THEN 0 ELSE Min(AUDIO_PACKET_SIZE, size - pkt_off)

\* The payload a caller uploads: byte i of pcm_data (never the pad byte)
PcmByte(i) == (i * 7 + 1) % 255

\* pcm_data[off : off + n]
PcmSlice(off, n) == [k \in 1..n |-> PcmByte(off + k - 1)]

\* bytes([AUDIO_PAD_BYTE]) * n
Padding(n) == [k \in 1..n |-> 255]

\* The signature argument: sigLen bytes
Signature(sigLen) == SubSeq(<<222, 173, 222, 173, 222>>, 1, sigLen)

\* init_payload: 08 10, the size as three little-endian bytes, the signature
InitPayload(size, signature) ==
    << 8, 16, size % 256, (size \div 256) % 256, (size \div 65536) % 256 >>
    \o signature

\* packet = AUDIO_DATA_PREFIX + chunk for packet pkt_idx of block block_num
DataPacket(size, block_num, pkt_idx) ==
    LET pkt_off == block_num * BlockSize + pkt_idx * AUDIO_PACKET_SIZE
        audio_len == AudioLen(size, block_num, pkt_idx)
        chunk == IF pkt_off >= size THEN Padding(AUDIO_PACKET_SIZE)
                 ELSE LET data == PcmSlice(pkt_off, audio_len)
                      IN  IF Len(data) < AUDIO_PACKET_SIZE
                          THEN data \o Padding(AUDIO_PACKET_SIZE - Len(data))
                          ELSE data
    IN  <<129, 8>> \o chunk

\* The CLI callback that always prints
ProgressPrintsAlways(pct, last_pct) == TRUE

\* do_upload_ringtone._progress: print when the percentage changed
ProgressPrints(pct, last_pct) == pct # last_pct

\* on_progress(min(1.0, sent / size)) as received by the CLI's _progress.
\* p is kept as a numerator over size; pct = int(p * 100).
OnProgress(k, sent, size) ==
    LET p == Min(size, sent)
        pct == (p * 100) \div size
        prints == ProgressPrints(pct, k.last_pct)
    IN  [calls |-> k.calls + 1, p |-> p, prev_p |-> k.p,
         last_pct |-> IF prints THEN pct ELSE k.last_pct,
         prev_pct |-> k.last_pct, printed |-> prints]

\* upload_ringtone, one turn of the packet loop, from the loop tests to the
\* write of the next packet (or return True).  u and k are the locals and
\* the callback state on entry.
UploadLoop(t, u, k) ==
    /\ cb' = [cb EXCEPT ![t] = k]
    /\ IF u.blk >= TotalBlocks(u.size)
       THEN /\ Ended(t, "ok", pc)
            /\ up' = [up EXCEPT ![t] = u]
            /\ UNCHANGED <<ackWaiters, fut, futResult, inbox>>
       ELSE LET is_last_in_block == (u.pkt = AUDIO_BLOCK_PACKETS - 1)
                u0 == IF is_last_in_block THEN Superseding(t, OP_BLOCK, u) ELSE u
                u1 == IF is_last_in_block /\ ackWaiters[OP_BLOCK] = t
                         /\ fut[t][OP_BLOCK] = "pending"
                      THEN [u0 EXCEPT !.rearmedPending = TRUE] ELSE u0
            IN  /\ ackWaiters' = IF is_last_in_block
                                 THEN ArmedWaiters(t, OP_BLOCK) ELSE ackWaiters
                /\ fut' = IF is_last_in_block THEN ArmedFut(t, OP_BLOCK) ELSE fut
                /\ UNCHANGED futResult
                /\ IF ~IsConnected(client)
                   THEN /\ Ended(t, IF client = 0 THEN "AttributeError"
                                    ELSE "BleakError", pc)
                        /\ up' = [up EXCEPT ![t] = u1]
                        /\ UNCHANGED inbox
                   ELSE /\ up' = [up EXCEPT ![t] =
                                    [u1 EXCEPT !.pkts = @ + 1,
                                               !.frame = DataPacket(u.size, u.blk,
                                                                    u.pkt)]]
                        /\ pc' = [pc EXCEPT ![t] = "u_pkt_write"]
                        /\ IF is_last_in_block THEN DeviceMayAck(client, OP_BLOCK)
                           ELSE UNCHANGED inbox
                        /\ UNCHANGED res

\* upload_ringtone from the signature test to the write of the init frame:
\* the 0x10 waiter is armed before the write
UploadInit(t) ==
    IF up[t].sigLen # 4
    THEN /\ Ended(t, "ValidationError", pc)
         /\ UNCHANGED <<ackWaiters, fut, futResult, inbox, up>>
    ELSE /\ ackWaiters' = ArmedWaiters(t, OP_INIT)
         /\ fut' = ArmedFut(t, OP_INIT)
         /\ UNCHANGED futResult
         /\ IF ~IsConnected(client)
            THEN /\ Ended(t, IF client = 0 THEN "AttributeError" ELSE "BleakError", pc)
                 /\ up' = [up EXCEPT ![t] = Superseding(t, OP_INIT, @)]
                 /\ UNCHANGED inbox
            ELSE /\ up' = [up EXCEPT ![t] =
                             [Superseding(t, OP_INIT, @)
                                EXCEPT !.initWritten = TRUE,
                                       !.frame = InitPayload(up[t].size,
                                                             Signature(up[t].sigLen))]]
                 /\ pc' = [pc EXCEPT ![t] = "u_init_write"]
                 /\ DeviceMayAck(client, OP_INIT)
                 /\ UNCHANGED res

\* A task calls upload_ringtone(pcm_data, signature, on_progress)
CallUpload(t, size, sigLen) ==
    /\ pc[t] = "idle"
    /\ pc' = [pc EXCEPT ![t] = "ec_start"]
    /\ op' = [op EXCEPT ![t] = "upload"]
    /\ res' = [res EXCEPT ![t] = "running"]
    /\ up' = [up EXCEPT ![t] = [UpIdle EXCEPT !.size = size, !.sigLen = sigLen]]
    /\ cb' = [cb EXCEPT ![t] = CbIdle]
    /\ UNCHANGED <<connVars, lock, ackVars, conn>>
    /\ CodecsUnchanged

\* _ensure_connected() returns to a caller that called it alone
EnsureReturn(t) ==
    /\ pc[t] = "ec_done"
    /\ op[t] = "ensure_connected"
    /\ Ended(t, "ok", pc)
    /\ UNCHANGED <<connVars, lock, ackVars, op, conn, upVars>>
    /\ CodecsUnchanged

\* _ensure_connected() returns into upload_ringtone: the idle-disconnect
\* task is cancelled; notifications are started if they never were
UploadStart(t) ==
    /\ pc[t] = "ec_done"
    /\ op[t] = "upload"
    /\ disconnectTask' = "none"
    /\ IF IsConnected(client) /\ ~cfgNotifyStarted
       THEN /\ conn' = [conn EXCEPT ![t] = client]
            /\ pc' = [pc EXCEPT ![t] = "u_notify"]
            /\ UNCHANGED <<ackVars, res, upVars>>
       ELSE /\ UploadInit(t)
            /\ UNCHANGED <<conn, cb>>
    /\ UNCHANGED <<client, clients, cfgNotifyStarted, lock, op>>
    /\ CodecsUnchanged

\* start_notify returns inside upload_ringtone; sleep(0.3) follows
UploadNotifyStarted(t) ==
    /\ pc[t] = "u_notify"
    /\ \E w \in TransportOutcomes(conn[t]) :
         IF w = "ok"
         THEN /\ clients' = [clients EXCEPT ![conn[t]].notify = TRUE]
              /\ cfgNotifyStarted' = TRUE
              /\ pc' = [pc EXCEPT ![t] = "u_settle"]
              /\ UNCHANGED res
         ELSE /\ Ended(t, w, pc)
              /\ UNCHANGED <<clients, cfgNotifyStarted>>
    /\ UNCHANGED <<client, disconnectTask, lock, ackVars, op, conn, upVars>>
    /\ CodecsUnchanged

UploadSettled(t) ==
    /\ pc[t] = "u_settle"
    /\ UploadInit(t)
    /\ UNCHANGED <<connVars, lock, op, conn, cb>>
    /\ CodecsUnchanged

\* The init write returns: wait_for(init_fut, 2.0) completes at once when
\* the future is already done, else the task waits
UploadInitWritten(t) ==
    /\ pc[t] = "u_init_write"
    /\ \E w \in TransportOutcomes(client) :
         IF w # "ok"
         THEN Ended(t, w, pc) /\ UNCHANGED <<ackVars, upVars>>
         ELSE IF fut[t][OP_INIT] = "result" THEN UploadLoop(t, up[t], cb[t])
         ELSE IF fut[t][OP_INIT] = "cancelled"
         THEN Ended(t, "CancelledError", pc) /\ UNCHANGED <<ackVars, upVars>>
         ELSE /\ pc' = [pc EXCEPT ![t] = "u_init_wait"]
              /\ UNCHANGED <<ackVars, res, upVars>>
    /\ UNCHANGED <<connVars, lock, op, conn>>
    /\ CodecsUnchanged

\* The init ack has resolved init_fut: the packet loop starts
UploadInitAcked(t) ==
    /\ pc[t] = "u_init_wait"
    /\ fut[t][OP_INIT] = "result"
    /\ UploadLoop(t, up[t], cb[t])
    /\ UNCHANGED <<connVars, lock, op, conn>>
    /\ CodecsUnchanged

\* A timeout that is swallowed: the packet loop starts without the ack
UploadInitTimeoutIgnored(t) ==
    /\ pc[t] = "u_init_wait"
    /\ fut[t][OP_INIT] = "pending"
    /\ UploadLoop(t, up[t], cb[t])
    /\ UNCHANGED <<connVars, lock, op, conn>>
    /\ CodecsUnchanged

\* No init ack within 2.0 s: wait_for cancels init_fut and raises
\* TimeoutError out of upload_ringtone
UploadInitTimeout(t) ==
    /\ pc[t] = "u_init_wait"
    /\ fut[t][OP_INIT] = "pending"
    /\ fut' = [fut EXCEPT ![t][OP_INIT] = "cancelled"]
    /\ UNCHANGED futResult
    /\ Ended(t, "TimeoutError", pc)
    /\ UNCHANGED <<connVars, lock, ackWaiters, inbox, op, conn, upVars>>
    /\ CodecsUnchanged

\* init_fut was cancelled by another _arm_ack(0x10)
UploadInitCancelled(t) ==
    /\ pc[t] = "u_init_wait"
    /\ fut[t][OP_INIT] = "cancelled"
    /\ Ended(t, "CancelledError", pc)
    /\ UNCHANGED <<connVars, lock, ackVars, op, conn, upVars>>
    /\ CodecsUnchanged

\* A data packet write returns; the pacing sleep follows (DISCONNECT_DELAY
\* after the last packet of a block, 0.02 s otherwise)
UploadPacketWritten(t) ==
    /\ pc[t] = "u_pkt_write"
    /\ \E w \in TransportOutcomes(client) :
         IF w = "ok" THEN pc' = [pc EXCEPT ![t] = "u_pkt_sleep"] /\ UNCHANGED res
         ELSE Ended(t, w, pc)
    /\ UNCHANGED <<connVars, lock, ackVars, op, conn, upVars>>
    /\ CodecsUnchanged

\* The pacing sleep ends: sent += audio_len; at the end of a block
\* on_progress is called; then the next turn of the loop
UploadPacketPaced(t) ==
    /\ pc[t] = "u_pkt_sleep"
    /\ LET u == up[t]
           sent == u.sent + AudioLen(u.size, u.blk, u.pkt)
           endOfBlock == (u.pkt = AUDIO_BLOCK_PACKETS - 1)
           u1 == [u EXCEPT !.sent = sent,
                           !.pkt = IF endOfBlock THEN 0 ELSE @ + 1,
                           !.blk = IF endOfBlock THEN @ + 1 ELSE @]
       IN  UploadLoop(t, u1, IF endOfBlock THEN OnProgress(cb[t], sent, u.size)
                             ELSE cb[t])
    /\ UNCHANGED <<connVars, lock, op, conn>>
    /\ CodecsUnchanged

----------------------------------------------------------------------------
\* Payload sizes: empty, one byte (one block), scenario C (600 bytes, 2
\* blocks), and a payload of more than 100 blocks
LargePayload == 52224
SmallSizes == {0, 1}
UploadSizes == {0, 600, LargePayload}
SigLens == {3, 4}

InitProto == ProtoInit /\ FacadeIdle /\ CfgIdle /\ AlarmIdle

\* Two tasks, each making one call of _ensure_connected() or of
\* upload_ringtone(), concurrently
FirstEnsureConnected(t) == op[t] = "none" /\ CallEnsureConnected(t)
FirstUpload(t, size) == op[t] = "none" /\ CallUpload(t, size, 4)

Next ==
    \/ \E t \in Tasks : FirstEnsureConnected(t)
    \/ \E t \in Tasks, size \in SmallSizes : FirstUpload(t, size)
    \/ \E t \in Tasks : EnsureLoop(t)
    \/ \E t \in Tasks : ConnectLocked(t)
    \/ \E t \in Tasks : ConnectScanned(t)
    \/ \E t \in Tasks : ConnectOpened(t)
    \/ \E t \in Tasks : ConnectFailed(t)
    \/ \E t \in Tasks : ConnectAuth1(t)
    \/ \E t \in Tasks : ConnectAuth2(t)
    \/ \E t \in Tasks : ConnectSubscribe(t)
    \/ \E t \in Tasks : ConnectDone(t)
    \/ \E t \in Tasks : EnsureTimeout(t)
    \/ \E t \in Tasks : EnsureReturn(t)
    \/ \E t \in Tasks : UploadStart(t)
    \/ \E t \in Tasks : UploadNotifyStarted(t)
    \/ \E t \in Tasks : UploadSettled(t)
    \/ \E t \in Tasks : UploadInitWritten(t)
    \/ \E t \in Tasks : UploadInitAcked(t)
    \/ \E t \in Tasks : UploadInitTimeout(t)
    \/ \E t \in Tasks : UploadInitCancelled(t)
    \/ \E t \in Tasks : UploadPacketWritten(t)
    \/ \E t \in Tasks : UploadPacketPaced(t)
    \/ \E c \in 1..Len(clients) : TransportDrop(c)
    \/ \E c \in 1..Len(clients) : OnDisconnect(c)
    \/ NotifyDeliver
Spec == InitProto /\ [][Next]_vars

\* One task uploading payloads of every size
Uploader == 1
NextUpload ==
    \/ \E size \in UploadSizes, sigLen \in SigLens : CallUpload(Uploader, size, sigLen)
    \/ EnsureLoop(Uploader)
    \/ ConnectScanned(Uploader)
    \/ ConnectOpened(Uploader)
    \/ ConnectFailed(Uploader)
    \/ ConnectAuth1(Uploader)
    \/ ConnectAuth2(Uploader)
    \/ ConnectSubscribe(Uploader)
    \/ ConnectDone(Uploader)
    \/ EnsureTimeout(Uploader)
    \/ UploadStart(Uploader)
    \/ UploadNotifyStarted(Uploader)
    \/ UploadSettled(Uploader)
    \/ UploadInitWritten(Uploader)
    \/ UploadInitAcked(Uploader)
    \/ UploadInitTimeout(Uploader)
    \/ UploadPacketWritten(Uploader)
    \/ UploadPacketPaced(Uploader)
    \/ \E c \in 1..Len(clients) : TransportDrop(c)
    \/ \E c \in 1..Len(clients) : OnDisconnect(c)
    \/ NotifyDeliver
SpecUpload == InitProto /\ [][NextUpload]_vars



(***************************************************************************)
(* qingping.py : the facade's configuration and time operations            *)
(***************************************************************************)
\* The task calling the facade
Caller == 1

\* A frame of a device set to UTC-1: as scenario A with the sign byte 0
WestFrame ==
    << 19, 2, 3, 88, 2, 0, 10, 5, 85, 21, 0, 6, 0, 0, 1, 0, 100, 100, 100, 100 >>

\* The configuration frames the device answers with
DeviceConfigFrames == {ScenarioAFrame, WestFrame}

\* What the device may send back on a write through the config channel
ReplyFrames(data) ==
    IF StartsWith(data, <<1, 2>>) \/ StartsWith(data, <<19, 1>>)
    THEN DeviceConfigFrames
    ELSE {}

DeviceMayReply(c, data) ==
    \E reply \in {<<>>} \cup ReplyFrames(data) :
        inbox' = IF reply # <<>> /\ clients[c].notify /\ Len(inbox) < MaxInbox
                 THEN Append(inbox, reply) ELSE inbox

\* What the facade's operations never touch
FacadeUntouched ==
    UNCHANGED <<codecVars, alarmVars, ringVars, lock, ackWaiters, fut, futResult, conn, upVars,
                cfgNotifyStarted>>
alarmCache == <<alarms, alarmsBySlot, alarmsEvent, published>>

\* _write_config up to the awaited write_gatt_char: both guards test the
\* handle; the frame is written on CFG_WRITE_CHAR
WriteConfigIssue(t, data, wr, nextpc) ==
    IF IsConnected(client)
    THEN /\ wire' = [wr EXCEPT ![t] = Append(@, data)]
         /\ pc' = [pc EXCEPT ![t] = nextpc]
         /\ res' = [res EXCEPT ![t] = "running"]
         /\ DeviceMayReply(client, data)
    ELSE /\ Ended(t, "NotConnectedError", pc)
         /\ wire' = wr
         /\ UNCHANGED inbox

\* _write_config after the write: the pending timer is cancelled and
\* delayed_disconnect() is scheduled anew
TimerRearmed(kind) ==
    /\ disconnectTask' = "armed"
    /\ lastWrite' = [kind |-> kind, rearmed |-> TRUE]

\* An event that is left as it is instead of being cleared
EventKept(event) == event

\* asyncio.Event.clear()
EventClear(event) == FALSE

\* get_configuration() up to its first suspension
GetConfigurationStart(t, wr) ==
    IF IsConnected(client)
    THEN /\ cfgEvent' = EventClear(cfgEvent)
         /\ WriteConfigIssue(t, <<1, 2>>, wr, "gc_write")
    ELSE /\ Ended(t, "NotConnectedError", pc)
         /\ wire' = wr
         /\ UNCHANGED <<cfgEvent, inbox>>

\* _get_timestamp_bytes(timestamp): 05 09 + 4 bytes little-endian
GetTimestampBytes(timestamp) ==
    << 5, 9, timestamp % 256, (timestamp \div 256) % 256,
       (timestamp \div 65536) % 256, (timestamp \div 16777216) % 256 >>

\* The timestamp set_time is called with
Timestamp == 1700000000

\* set_time: _write_gatt_char(MAIN_CHAR, timestamp_bytes) up to the write
SetTimeWriteTime(t) ==
    IF IsConnected(client)
    THEN /\ wire' = [wire EXCEPT ![t] = Append(@, GetTimestampBytes(Timestamp))]
         /\ pc' = [pc EXCEPT ![t] = "st_write"]
         /\ UNCHANGED res
    ELSE /\ Ended(t, "NotConnectedError", pc)
         /\ UNCHANGED wire

\* Screen-light times a caller passes to set_screen_light_time
LightTimeArgs == {10, 31}

\* The body of set_screen_light_time (one of the @updates_configuration
\* setters): the cached object is assigned to, encoded and written
SetScreenLightTimeBody(t) ==
    IF configuration = None
    THEN /\ Ended(t, "ValidationError", pc)
         /\ UNCHANGED <<configuration, cfgSeen, call, wire, inbox>>
    ELSE LET assigned == ScreenLightTimeSet(Val(configuration), call[t].fields[1])
             encoded == ConfigToBytes(assigned.val)
         IN  IF assigned.exc # ""
             THEN /\ Ended(t, assigned.exc, pc)
                  /\ UNCHANGED <<configuration, cfgSeen, call, wire, inbox>>
             ELSE /\ configuration' = Some(assigned.val)
                  /\ IF encoded.exc # ""
                     THEN /\ Ended(t, encoded.exc, pc)
                          /\ UNCHANGED <<cfgSeen, call, wire, inbox>>
                     ELSE /\ WriteConfigIssue(t, encoded.val, wire, "sc_write")
                          /\ call' = [call EXCEPT ![t].stage = "set_cfg"]
                          /\ cfgSeen' = [cfgSeen EXCEPT !.sinceWrite = FALSE]

\* The body of enable_alarms (another @updates_configuration setter): the
\* cached object is assigned to, encoded and written
EnableAlarmsBody(t) ==
    IF configuration = None
    THEN /\ Ended(t, "ValidationError", pc)
         /\ UNCHANGED <<configuration, cfgSeen, call, wire, inbox>>
    ELSE LET assigned == [Val(configuration) EXCEPT !.alarms_on = call[t].fields[1]]
             encoded == ConfigToBytes(assigned)
         IN  /\ configuration' = Some(assigned)
             /\ IF encoded.exc # ""
                THEN /\ Ended(t, encoded.exc, pc)
                     /\ UNCHANGED <<cfgSeen, call, wire, inbox>>
                ELSE /\ WriteConfigIssue(t, encoded.val, wire, "sc_write")
                     /\ call' = [call EXCEPT ![t].stage = "set_cfg"]
                     /\ cfgSeen' = [cfgSeen EXCEPT !.sinceWrite = FALSE]

\* The @updates_configuration setters of the model
Setters == {"set_screen_light_time", "enable_alarms"}

\* func(self, *args, **kwargs) of the wrapper
SetterBody(t) ==
    IF op[t] = "enable_alarms" THEN EnableAlarmsBody(t) ELSE SetScreenLightTimeBody(t)

\* get_configuration() returns to its caller: to set_time or to the wrapper
\* of a setter after _ensure_configuration(), else out of the operation
GetConfigReturned(t) ==
    IF op[t] = "set_time" /\ call[t].stage = "ensure_cfg"
    THEN SetTimeWriteTime(t) /\ UNCHANGED <<configuration, cfgSeen, call, inbox>>
    ELSE IF op[t] \in Setters /\ call[t].stage = "ensure_cfg"
    THEN SetterBody(t)
    ELSE /\ Ended(t, "ok", pc)
         /\ UNCHANGED <<configuration, cfgSeen, call, wire, inbox>>

\* A task calls get_configuration()
CallGetConfiguration(t) ==
    /\ pc[t] = "idle"
    /\ op' = [op EXCEPT ![t] = "get_configuration"]
    /\ call' = [call EXCEPT ![t] = CallIdle]
    /\ cfgSeen' = [cfgSeen EXCEPT !.sinceCall = FALSE]
    /\ GetConfigurationStart(t, [wire EXCEPT ![t] = <<>>])
    /\ UNCHANGED <<client, clients, disconnectTask, configuration, alarmCache, lastWrite>>
    /\ FacadeUntouched

\* The write of 01 02 returns: the timer is re-armed, then
\* wait_for(self._configuration_event.wait(), RESPONSE_TIMEOUT)
GetConfigWritten(t) ==
    /\ pc[t] = "gc_write"
    /\ \E w \in TransportOutcomes(client) :
         IF w # "ok"
         THEN /\ Ended(t, w, pc)
              /\ UNCHANGED <<disconnectTask, lastWrite, wire, configuration, cfgSeen,
                             call, inbox>>
         ELSE /\ TimerRearmed("read")
              /\ IF cfgEvent THEN GetConfigReturned(t)
                 ELSE /\ pc' = [pc EXCEPT ![t] = "gc_wait"]
                      /\ UNCHANGED <<res, wire, configuration, cfgSeen, call, inbox>>
    /\ UNCHANGED <<client, clients, op, cfgEvent, alarmCache>>
    /\ FacadeUntouched

\* The configuration event is set while get_configuration() waits
GetConfigResolved(t) ==
    /\ pc[t] = "gc_wait"
    /\ cfgEvent
    /\ GetConfigReturned(t)
    /\ UNCHANGED <<client, clients, disconnectTask, op, cfgEvent, alarmCache,
                   lastWrite>>
    /\ FacadeUntouched

\* RESPONSE_TIMEOUT expires with the event clear: TimeoutError
GetConfigTimeout(t) ==
    /\ pc[t] = "gc_wait"
    /\ ~cfgEvent
    /\ Ended(t, "TimeoutError", pc)
    /\ UNCHANGED <<client, clients, disconnectTask, inbox, op, call, handlerVars,
                   wire, lastWrite>>
    /\ FacadeUntouched

\* Configuration objects a caller passes to set_configuration: scenario A
\* with the daytime brightness raised, and the configuration of a device
\* west of Greenwich
CallerConfigs ==
    { DaytimeBrightnessSet(Configuration(ScenarioAFrame).val, 100).val,
      Configuration(WestFrame).val }

\* A task calls set_configuration(configuration)
CallSetConfiguration(t, obj) ==
    /\ pc[t] = "idle"
    /\ op' = [op EXCEPT ![t] = "set_configuration"]
    /\ call' = [call EXCEPT ![t] = [CallIdle EXCEPT !.obj = Some(obj)]]
    /\ cfgSeen' = [cfgSeen EXCEPT !.sinceCall = FALSE, !.sinceWrite = FALSE]
    /\ LET encoded == ConfigToBytes(obj)
           wr == [wire EXCEPT ![t] = <<>>]
       IN  IF encoded.exc # ""
           THEN Ended(t, encoded.exc, pc) /\ wire' = wr /\ UNCHANGED inbox
           ELSE WriteConfigIssue(t, encoded.val, wr, "sc_write")
    /\ UNCHANGED <<client, clients, disconnectTask, configuration, cfgEvent,
                   alarmCache, lastWrite>>
    /\ FacadeUntouched

\* A set_configuration that returns without reading back
SetConfigWrittenNoReadBack(t) ==
    /\ pc[t] = "sc_write"
    /\ \E w \in TransportOutcomes(client) :
         IF w # "ok"
         THEN Ended(t, w, pc) /\ UNCHANGED <<disconnectTask, lastWrite>>
         ELSE TimerRearmed("config") /\ Ended(t, "ok", pc)
    /\ UNCHANGED <<client, clients, op, call, configuration, cfgSeen, alarmCache,
                   cfgEvent, wire, inbox>>
    /\ FacadeUntouched

\* The write of the 13 01 record returns: the timer is re-armed, then
\* get_configuration() runs up to its write
SetConfigWritten(t) ==
    /\ pc[t] = "sc_write"
    /\ \E w \in TransportOutcomes(client) :
         IF w # "ok"
         THEN /\ Ended(t, w, pc)
              /\ UNCHANGED <<disconnectTask, lastWrite, cfgEvent, wire, inbox>>
         ELSE /\ TimerRearmed("config")
              /\ GetConfigurationStart(t, wire)
    /\ UNCHANGED <<client, clients, op, call, configuration, cfgSeen, alarmCache>>
    /\ FacadeUntouched

\* Time-zone arguments of set_time: none, UTC+2, UTC-1
TzArgs == {None, Some(120), Some(-60)}

\* A task calls set_time(timestamp, timezone_offset)
CallSetTime(t, tz) ==
    /\ pc[t] = "idle"
    /\ pc' = [pc EXCEPT ![t] = "ec_start"]
    /\ op' = [op EXCEPT ![t] = "set_time"]
    /\ res' = [res EXCEPT ![t] = "running"]
    /\ call' = [call EXCEPT ![t] = [CallIdle EXCEPT !.tz = tz, !.stage = "connect"]]
    /\ wire' = [wire EXCEPT ![t] = <<>>]
    /\ UNCHANGED <<client, clients, disconnectTask, inbox, handlerVars, lastWrite>>
    /\ FacadeUntouched

\* _ensure_connected() returns into set_time.  The first time
\* _ensure_configuration() follows: without a configuration, or with an
\* expired one, it calls _ensure_connected() once more and then
\* get_configuration(); otherwise the timestamp is written.
SetTimeConnected(t) ==
    /\ pc[t] = "ec_done"
    /\ op[t] = "set_time"
    /\ IF call[t].stage = "connect"
       THEN IF configuration = None \/ cfgSeen.age = "expired"
            THEN /\ pc' = [pc EXCEPT ![t] = "ec_start"]
                 /\ call' = [call EXCEPT ![t].stage = "ensure_cfg"]
                 /\ UNCHANGED <<res, wire, cfgEvent, inbox>>
            ELSE /\ SetTimeWriteTime(t)
                 /\ UNCHANGED <<call, cfgEvent, inbox>>
       ELSE /\ GetConfigurationStart(t, wire)
            /\ UNCHANGED call
    /\ UNCHANGED <<client, clients, disconnectTask, op, configuration, cfgSeen,
                   alarmCache, lastWrite>>
    /\ FacadeUntouched

\* The timestamp write returns (no timer is touched).  With a time zone
\* that differs from the cached one the configuration object is updated in
\* place and set_configuration(self.configuration) runs up to its write.
SetTimeWritten(t) ==
    /\ pc[t] = "st_write"
    /\ \E w \in TransportOutcomes(client) :
         IF w # "ok"
         THEN /\ Ended(t, w, pc)
              /\ UNCHANGED <<lastWrite, configuration, cfgSeen, call, wire, inbox>>
         ELSE /\ lastWrite' = [kind |-> "time", rearmed |-> FALSE]
              /\ IF /\ call[t].tz # None
                    /\ configuration # None
                    /\ TimezoneOffsetGet(Val(configuration)) # Val(call[t].tz)
                 THEN LET assigned == TimezoneOffsetSet(Val(configuration),
                                                        Val(call[t].tz))
                          encoded == ConfigToBytes(assigned.val)
                      IN  IF assigned.exc # ""
                          THEN /\ Ended(t, assigned.exc, pc)
                               /\ UNCHANGED <<configuration, cfgSeen, call, wire, inbox>>
                          ELSE /\ configuration' = Some(assigned.val)
                               /\ IF encoded.exc # ""
                                  THEN /\ Ended(t, encoded.exc, pc)
                                       /\ UNCHANGED <<cfgSeen, call, wire, inbox>>
                                  ELSE /\ WriteConfigIssue(t, encoded.val, wire,
                                                           "sc_write")
                                       /\ call' = [call EXCEPT
                                                     ![t].stage = "set_cfg",
                                                     ![t].obj = Some(assigned.val)]
                                       /\ cfgSeen' = [cfgSeen EXCEPT
                                                        !.sinceWrite = FALSE]
                 ELSE /\ Ended(t, "ok", pc)
                      /\ UNCHANGED <<configuration, cfgSeen, call, wire, inbox>>
    /\ UNCHANGED <<client, clients, disconnectTask, op, cfgEvent, alarmCache>>
    /\ FacadeUntouched

\* A task calls set_screen_light_time(_time): the wrapper starts with
\* _ensure_connected()
CallSetScreenLightTime(t, value) ==
    /\ pc[t] = "idle"
    /\ pc' = [pc EXCEPT ![t] = "ec_start"]
    /\ op' = [op EXCEPT ![t] = "set_screen_light_time"]
    /\ res' = [res EXCEPT ![t] = "running"]
    /\ call' = [call EXCEPT ![t] = [CallIdle EXCEPT !.fields = <<value>>,
                                                    !.stage = "connect"]]
    /\ wire' = [wire EXCEPT ![t] = <<>>]
    /\ UNCHANGED <<client, clients, disconnectTask, inbox, handlerVars, lastWrite>>
    /\ FacadeUntouched

\* _ensure_connected() returns into the wrapper.  The first time
\* _ensure_configuration() follows: without a configuration, or with an
\* expired one, it calls _ensure_connected() once more and then
\* get_configuration(); otherwise the body of the setter runs at once.
SetterConnected(t) ==
    /\ pc[t] = "ec_done"
    /\ op[t] \in Setters
    /\ IF call[t].stage = "connect"
       THEN IF configuration = None \/ cfgSeen.age = "expired"
            THEN /\ pc' = [pc EXCEPT ![t] = "ec_start"]
                 /\ call' = [call EXCEPT ![t].stage = "ensure_cfg"]
                 /\ UNCHANGED <<res, wire, configuration, cfgSeen, cfgEvent, inbox>>
            ELSE SetterBody(t) /\ UNCHANGED cfgEvent
       ELSE /\ GetConfigurationStart(t, wire)
            /\ UNCHANGED <<call, configuration, cfgSeen>>
    /\ UNCHANGED <<client, clients, disconnectTask, op, alarmCache, lastWrite>>
    /\ FacadeUntouched

\* A task calls enable_alarms(is_enabled): the wrapper starts with
\* _ensure_connected()
CallEnableAlarms(t, is_enabled) ==
    /\ pc[t] = "idle"
    /\ pc' = [pc EXCEPT ![t] = "ec_start"]
    /\ op' = [op EXCEPT ![t] = "enable_alarms"]
    /\ res' = [res EXCEPT ![t] = "running"]
    /\ call' = [call EXCEPT ![t] = [CallIdle EXCEPT !.fields = <<is_enabled>>,
                                                    !.stage = "connect"]]
    /\ wire' = [wire EXCEPT ![t] = <<>>]
    /\ UNCHANGED <<client, clients, disconnectTask, inbox, handlerVars, lastWrite>>
    /\ FacadeUntouched

\* Time passes between two operations: the cached object, decoded some
\* operations ago, comes close to its validity time.  An operation lasts
\* seconds (CONNECT_TIMEOUT, RESPONSE_TIMEOUT) and the validity time is 30
\* minutes, so a snapshot decoded during an operation is still valid when
\* that operation ends.
SnapshotAges ==
    /\ configuration # None
    /\ cfgSeen.age = "fresh"
    /\ \A t \in Tasks : pc[t] = "idle"
    /\ cfgSeen' = [cfgSeen EXCEPT !.age = "old"]
    /\ UNCHANGED <<connVars, lock, ackVars, taskVars, upVars, codecVars, alarmVars,
                   ringVars, configuration, cfgEvent, alarmCache, callVars>>

\* Configuration.is_expired turns true: CONFIGURATION_VALIDITY_TIME has
\* passed since the cached object was decoded, at whatever point the
\* program is then
ValidityTimePassed ==
    /\ configuration # None
    /\ cfgSeen.age = "old"
    /\ cfgSeen' = [cfgSeen EXCEPT !.age = "expired"]
    /\ UNCHANGED <<connVars, lock, ackVars, taskVars, upVars, codecVars, alarmVars,
                   ringVars, configuration, cfgEvent, alarmCache, callVars>>

\* delayed_disconnect(): DISCONNECT_DELAY has passed without the task being
\* cancelled; disconnect() closes the transport if it is connected
DisconnectTimerExpired ==
    /\ disconnectTask = "armed"
    /\ disconnectTask' = "none"
    /\ IF IsConnected(client)
       THEN /\ clients' = [clients EXCEPT ![client].state = "closing"]
            /\ inbox' = <<>>
       ELSE UNCHANGED <<clients, inbox>>
    /\ UNCHANGED <<client, cfgNotifyStarted, lock, ackWaiters, fut, futResult, taskVars, upVars>>
    /\ CodecsUnchanged

InitCfgOps == InitProto
NextCfgOps ==
    \/ CallEnsureConnected(Caller)
    \/ EnsureLoop(Caller)
    \/ ConnectScanned(Caller)
    \/ ConnectOpened(Caller)
    \/ ConnectFailed(Caller)
    \/ ConnectAuth1(Caller)
    \/ ConnectAuth2(Caller)
    \/ ConnectSubscribe(Caller)
    \/ ConnectDone(Caller)
    \/ EnsureTimeout(Caller)
    \/ EnsureReturn(Caller)
    \/ CallGetConfiguration(Caller)
    \/ GetConfigWritten(Caller)
    \/ GetConfigResolved(Caller)
    \/ GetConfigTimeout(Caller)
    \/ \E obj \in CallerConfigs : CallSetConfiguration(Caller, obj)
    \/ SetConfigWritten(Caller)
    \/ \E tz \in TzArgs : CallSetTime(Caller, tz)
    \/ SetTimeConnected(Caller)
    \/ SetTimeWritten(Caller)
    \/ SnapshotAges
    \/ ValidityTimePassed
    \/ DisconnectTimerExpired
    \/ \E c \in 1..Len(clients) : TransportDrop(c)
    \/ \E c \in 1..Len(clients) : OnDisconnect(c)
    \/ NotifyDeliver

\* Timers expire and a task whose event is set is resumed
CfgOpsFairness ==
    /\ WF_vars(GetConfigResolved(Caller))
    /\ WF_vars(GetConfigTimeout(Caller))
SpecCfgOps == InitCfgOps /\ [][NextCfgOps]_vars /\ CfgOpsFairness

\* The operations that work on the cached configuration, with the snapshot
\* ageing while the connection is kept up
NextExpiry ==
    \/ EnsureLoop(Caller)
    \/ ConnectScanned(Caller)
    \/ ConnectOpened(Caller)
    \/ ConnectFailed(Caller)
    \/ ConnectAuth1(Caller)
    \/ ConnectAuth2(Caller)
    \/ ConnectSubscribe(Caller)
    \/ ConnectDone(Caller)
    \/ EnsureTimeout(Caller)
    \/ CallGetConfiguration(Caller)
    \/ GetConfigWritten(Caller)
    \/ GetConfigResolved(Caller)
    \/ GetConfigTimeout(Caller)
    \/ SetConfigWritten(Caller)
    \/ \E tz \in TzArgs : CallSetTime(Caller, tz)
    \/ SetTimeConnected(Caller)
    \/ SetTimeWritten(Caller)
    \/ \E value \in LightTimeArgs : CallSetScreenLightTime(Caller, value)
    \/ SetterConnected(Caller)
    \/ \E is_enabled \in BOOLEAN : CallEnableAlarms(Caller, is_enabled)
    \/ SnapshotAges
    \/ ValidityTimePassed
    \/ DisconnectTimerExpired
    \/ \E c \in 1..Len(clients) : TransportDrop(c)
    \/ \E c \in 1..Len(clients) : OnDisconnect(c)
    \/ NotifyDeliver
SpecExpiry == InitProto /\ [][NextExpiry]_vars

(***************************************************************************)
(* qingping.py : the facade's alarm operations                             *)
(***************************************************************************)
\* The entry the device holds for a slot, in two settings of the device:
\* in the first, slots 3 and 11 are empty
DeviceEntry(s, v) ==
    IF v = 1 /\ s \in {3, 11} THEN EmptyEntry
    ELSE << s % 2, 6 + v, s, Pow2(s % 7), v - 1 >>

RECURSIVE DeviceEntries(_, _, _)
DeviceEntries(base, n, v) ==
    IF n = 0 THEN <<>>
    ELSE DeviceEntries(base, n - 1, v) \o DeviceEntry(base + n - 1, v)

\* 11 06 <base index> + n entries
Fragment(base, n, v) == <<17, 6, base>> \o DeviceEntries(base, n, v)

DeviceSettings == {1, 2}

\* The alarm notifications of the device: slots 0-9 of either setting,
\* slots 10-15, a fragment that runs past the last slot, and one too short
\* to hold an entry
AlarmFragments ==
    { Fragment(0, 10, v) : v \in DeviceSettings }
        \cup { Fragment(10, 6, 1), Fragment(14, 4, 1), <<17, 6, 0, 1, 7>> }

\* The device sends an alarm notification
DeviceSendsAlarms(frame) ==
    /\ IsConnected(client)
    /\ clients[client].notify
    /\ Len(inbox) < MaxInbox
    /\ inbox' = Append(inbox, frame)
    /\ UNCHANGED <<connVars, lock, ackWaiters, fut, futResult, taskVars, upVars>>
    /\ CodecsUnchanged

cfgCache == <<configuration, cfgEvent, cfgSeen>>

\* get_alarms() up to its first suspension
GetAlarmsStart(t, wr) ==
    IF IsConnected(client)
    THEN /\ alarmsEvent' = EventClear(alarmsEvent)
         /\ alarms' = <<>>
         /\ alarmsBySlot' = ClearSnapshot(alarmsBySlot)
         /\ WriteConfigIssue(t, <<1, 6>>, wr, "ga_write")
    ELSE /\ Ended(t, "NotConnectedError", pc)
         /\ wire' = wr
         /\ UNCHANGED <<alarmsEvent, alarms, alarmsBySlot, inbox>>

AlarmOps == {"set_alarm", "delete_alarm"}

\* get_alarms() returns to its caller: to set_alarm / delete_alarm after
\* _ensure_alarms(), where _ensure_connected() follows; else out of the
\* operation, which for set_alarm / delete_alarm returns True
GetAlarmsReturned(t) ==
    IF op[t] \in AlarmOps /\ call[t].stage = "ensure_alarms"
    THEN /\ pc' = [pc EXCEPT ![t] = "ec_start"]
         /\ call' = [call EXCEPT ![t].stage = "connect"]
         /\ UNCHANGED res
    ELSE /\ Ended(t, IF op[t] \in AlarmOps THEN "True" ELSE "ok", pc)
         /\ UNCHANGED call

\* A task calls get_alarms()
CallGetAlarms(t) ==
    /\ pc[t] = "idle"
    /\ op' = [op EXCEPT ![t] = "get_alarms"]
    /\ call' = [call EXCEPT ![t] = CallIdle]
    /\ GetAlarmsStart(t, [wire EXCEPT ![t] = <<>>])
    /\ UNCHANGED <<client, clients, disconnectTask, cfgCache, published, lastWrite>>
    /\ FacadeUntouched

\* The write of 01 06 returns: the timer is re-armed, then
\* wait_for(self._alarms_event.wait(), RESPONSE_TIMEOUT)
GetAlarmsWritten(t) ==
    /\ pc[t] = "ga_write"
    /\ \E w \in TransportOutcomes(client) :
         IF w # "ok"
         THEN Ended(t, w, pc) /\ UNCHANGED <<disconnectTask, lastWrite, call>>
         ELSE /\ TimerRearmed("read_alarms")
              /\ IF alarmsEvent THEN GetAlarmsReturned(t)
                 ELSE /\ pc' = [pc EXCEPT ![t] = "ga_wait"]
                      /\ UNCHANGED <<res, call>>
    /\ UNCHANGED <<client, clients, inbox, op, wire, handlerVars>>
    /\ FacadeUntouched

\* The alarms event is set while get_alarms() waits
GetAlarmsResolved(t) ==
    /\ pc[t] = "ga_wait"
    /\ alarmsEvent
    /\ GetAlarmsReturned(t)
    /\ UNCHANGED <<client, clients, disconnectTask, inbox, op, wire, handlerVars,
                   lastWrite>>
    /\ FacadeUntouched

\* RESPONSE_TIMEOUT expires with the event clear: TimeoutError
GetAlarmsTimeout(t) ==
    /\ pc[t] = "ga_wait"
    /\ ~alarmsEvent
    /\ Ended(t, "TimeoutError", pc)
    /\ UNCHANGED <<client, clients, disconnectTask, inbox, op, call, wire,
                   handlerVars, lastWrite>>
    /\ FacadeUntouched

\* Slot arguments: an empty slot of the first device setting, the last
\* slot, and one on either side of the range
SlotArgs == {3, 15, 16, -1}

\* Field arguments <<is_enabled, time, days, snooze>> of set_alarm
FieldArgs ==
    { <<None, None, None, None>>,
      <<Some(TRUE), None, None, None>>,
      <<Some(FALSE), Some(<<5, 45>>), Some({1, 7}), Some(FALSE)>> }

\* _ensure_alarms(): not self.alarms or len(self.alarms) < ALARM_SLOTS_COUNT
AlarmsMissing == alarms = <<>> \/ Len(alarms) < ALARM_SLOTS_COUNT

\* set_alarm / delete_alarm up to the first suspension: _ensure_alarms()
\* calls _ensure_connected() when the cached list is missing, otherwise
\* the operation's own _ensure_connected() is next
AlarmOpStart(t, name, slot, fields) ==
    /\ pc' = [pc EXCEPT ![t] = "ec_start"]
    /\ op' = [op EXCEPT ![t] = name]
    /\ res' = [res EXCEPT ![t] = "running"]
    /\ call' = [call EXCEPT ![t] =
                  [CallIdle EXCEPT !.slot = slot, !.fields = fields,
                                   !.stage = IF AlarmsMissing THEN "ensure_alarms_connect"
                                             ELSE "connect"]]
    /\ wire' = [wire EXCEPT ![t] = <<>>]
    /\ UNCHANGED <<client, clients, disconnectTask, inbox, handlerVars, lastWrite>>
    /\ FacadeUntouched

\* A task calls set_alarm(slot, is_enabled, time, days, snooze)
CallSetAlarm(t, slot, fields) ==
    /\ pc[t] = "idle"
    /\ AlarmOpStart(t, "set_alarm", slot, fields)

\* A task calls delete_alarm(slot)
CallDeleteAlarm(t, slot) ==
    /\ pc[t] = "idle"
    /\ AlarmOpStart(t, "delete_alarm", slot, <<>>)

\* A range test that admits the slot count itself
SlotInRangeInclusive(slot) == 0 <= slot /\ slot <= ALARM_SLOTS_COUNT

\* 0 <= slot < ALARM_SLOTS_COUNT
SlotInRange(slot) == 0 <= slot /\ slot < ALARM_SLOTS_COUNT

\* A validation that accepts every alarm
AlwaysValid(a) == TRUE

\* if not alarm.is_configured: raise ValidationError
PassesValidation(a) == IsConfigured(a)

\* set_alarm / delete_alarm from the range test up to the write of the
\* slot's record.  The Alarm object of the cached list is changed in
\* place, and with it the map's entry when that is the same object.
AlarmOpBody(t) ==
    LET slot == call[t].slot
        f == call[t].fields
    IN  IF SlotInRange(slot)
        THEN IF slot + 1 > Len(alarms)
             THEN /\ Ended(t, "IndexError", pc)
                  /\ UNCHANGED <<alarms, alarmsBySlot, call, wire, inbox>>
             ELSE LET cur == alarms[slot + 1]
                      changed == IF op[t] = "set_alarm"
                                 THEN MergeAlarm(cur, f[1], f[2], f[3], f[4])
                                 ELSE Deactivate(cur)
                      encoded == AlarmToBytes(changed)
                  IN  /\ alarms' = [alarms EXCEPT ![slot + 1] = changed]
                      /\ alarmsBySlot' =
                            [alarmsBySlot EXCEPT ![slot] =
                               IF @ # None /\ Val(@).shared
                               THEN Some([Val(@) EXCEPT !.alarm = changed])
                               ELSE @]
                      /\ UNCHANGED call
                      /\ IF op[t] = "set_alarm" /\ ~PassesValidation(changed)
                         THEN /\ Ended(t, "ValidationError", pc)
                              /\ UNCHANGED <<wire, inbox>>
                         ELSE IF encoded.exc # ""
                         THEN /\ Ended(t, encoded.exc, pc)
                              /\ UNCHANGED <<wire, inbox>>
                         ELSE WriteConfigIssue(t, encoded.val, wire, "sa_write")
        ELSE /\ Ended(t, "False", pc)
             /\ UNCHANGED <<alarms, alarmsBySlot, call, wire, inbox>>

\* _ensure_connected() returns into set_alarm / delete_alarm: inside
\* _ensure_alarms() get_alarms() follows, otherwise the operation's body
AlarmOpConnected(t) ==
    /\ pc[t] = "ec_done"
    /\ op[t] \in AlarmOps
    /\ IF call[t].stage = "ensure_alarms_connect"
       THEN /\ GetAlarmsStart(t, wire)
            /\ call' = [call EXCEPT ![t].stage = "ensure_alarms"]
       ELSE /\ AlarmOpBody(t)
            /\ UNCHANGED alarmsEvent
    /\ UNCHANGED <<client, clients, disconnectTask, op, cfgCache, published,
                   lastWrite>>
    /\ FacadeUntouched

\* The write of the 07 05 record returns: the timer is re-armed, then
\* get_alarms() runs up to its write
AlarmWritten(t) ==
    /\ pc[t] = "sa_write"
    /\ \E w \in TransportOutcomes(client) :
         IF w # "ok"
         THEN /\ Ended(t, w, pc)
              /\ UNCHANGED <<disconnectTask, lastWrite, call, alarms, alarmsBySlot,
                             alarmsEvent, wire, inbox>>
         ELSE /\ TimerRearmed("alarm")
              /\ call' = [call EXCEPT ![t].stage = "refresh"]
              /\ GetAlarmsStart(t, wire)
    /\ UNCHANGED <<client, clients, op, cfgCache, published>>
    /\ FacadeUntouched

InitAlarms == InitProto
NextAlarms ==
    \/ EnsureLoop(Caller)
    \/ ConnectScanned(Caller)
    \/ ConnectOpened(Caller)
    \/ ConnectFailed(Caller)
    \/ ConnectAuth1(Caller)
    \/ ConnectAuth2(Caller)
    \/ ConnectSubscribe(Caller)
    \/ ConnectDone(Caller)
    \/ EnsureTimeout(Caller)
    \/ CallGetAlarms(Caller)
    \/ GetAlarmsWritten(Caller)
    \/ GetAlarmsResolved(Caller)
    \/ GetAlarmsTimeout(Caller)
    \/ \E slot \in SlotArgs, fields \in FieldArgs : CallSetAlarm(Caller, slot, fields)
    \/ \E slot \in SlotArgs : CallDeleteAlarm(Caller, slot)
    \/ AlarmOpConnected(Caller)
    \/ AlarmWritten(Caller)
    \/ \E frame \in AlarmFragments : DeviceSendsAlarms(frame)
    \/ DisconnectTimerExpired
    \/ \E c \in 1..Len(clients) : TransportDrop(c)
    \/ \E c \in 1..Len(clients) : OnDisconnect(c)
    \/ NotifyDeliver
SpecAlarms == InitAlarms /\ [][NextAlarms]_vars

\* One caller that connects again after the connection was lost: calls of
\* _ensure_connected(), get_configuration() and set_time(), with one
\* BleakClient more than in the other specifications
NextReconnect ==
    \/ CallEnsureConnected(Caller)
    \/ EnsureLoop(Caller)
    \/ ConnectScannedUpTo(Caller, MaxClients + 1)
    \/ ConnectOpened(Caller)
    \/ ConnectFailed(Caller)
    \/ ConnectAuth1(Caller)
    \/ ConnectAuth2(Caller)
    \/ ConnectSubscribe(Caller)
    \/ ConnectDone(Caller)
    \/ EnsureTimeout(Caller)
    \/ EnsureReturn(Caller)
    \/ CallGetConfiguration(Caller)
    \/ GetConfigWritten(Caller)
    \/ GetConfigResolved(Caller)
    \/ GetConfigTimeout(Caller)
    \/ \E tz \in TzArgs : CallSetTime(Caller, tz)
    \/ SetTimeConnected(Caller)
    \/ SetTimeWritten(Caller)
    \/ SetConfigWritten(Caller)
    \/ DisconnectTimerExpired
    \/ \E c \in 1..Len(clients) : TransportDrop(c)
    \/ \E c \in 1..Len(clients) : OnDisconnect(c)
    \/ NotifyDeliver
SpecReconnect == InitProto /\ [][NextReconnect]_vars

\* The task that reads the alarms while the caller reads the configuration
AlarmReader == 2

\* The device sends a configuration notification some time after the
\* request
DeviceSendsConfiguration(frame) ==
    /\ IsConnected(client)
    /\ clients[client].notify
    /\ Len(inbox) < MaxInbox
    /\ \E t \in Tasks : pc[t] = "gc_wait"
    /\ inbox' = Append(inbox, frame)
    /\ UNCHANGED <<connVars, lock, ackWaiters, fut, futResult, taskVars, upVars>>
    /\ CodecsUnchanged

\* Notifications that are none of the frames the handler knows: another
\* prefix, and the audio-ack prefix with no opcode after it
StrayFrames == { <<9, 9, 9>>, <<4, 255>> }

\* The device sends a notification of another kind
DeviceSendsStray(frame) ==
    /\ IsConnected(client)
    /\ clients[client].notify
    /\ Len(inbox) < MaxInbox
    /\ inbox' = Append(inbox, frame)
    /\ UNCHANGED <<connVars, lock, ackWaiters, fut, futResult, taskVars, upVars>>
    /\ CodecsUnchanged

\* get_configuration() by one task and get_alarms() by another on one
\* connection
NextRoundTrips ==
    \/ FirstEnsureConnected(Caller)
    \/ EnsureLoop(Caller)
    \/ ConnectScanned(Caller)
    \/ ConnectOpened(Caller)
    \/ ConnectAuth1(Caller)
    \/ ConnectAuth2(Caller)
    \/ ConnectSubscribe(Caller)
    \/ ConnectDone(Caller)
    \/ EnsureReturn(Caller)
    \/ CallGetConfiguration(Caller)
    \/ GetConfigWritten(Caller)
    \/ GetConfigResolved(Caller)
    \/ GetConfigTimeout(Caller)
    \/ CallGetAlarms(AlarmReader)
    \/ GetAlarmsWritten(AlarmReader)
    \/ GetAlarmsResolved(AlarmReader)
    \/ GetAlarmsTimeout(AlarmReader)
    \/ \E frame \in AlarmFragments : DeviceSendsAlarms(frame)
    \/ \E frame \in DeviceConfigFrames : DeviceSendsConfiguration(frame)
    \/ \E frame \in StrayFrames : DeviceSendsStray(frame)
    \/ DisconnectTimerExpired
    \/ \E c \in 1..Len(clients) : TransportDrop(c)
    \/ \E c \in 1..Len(clients) : OnDisconnect(c)
    \/ NotifyDeliver
SpecRoundTrips == InitProto /\ [][NextRoundTrips]_vars

(***************************************************************************)
(* ringtones.py and cgd1.py : custom ringtone slots                        *)
(***************************************************************************)
CUSTOM_SLOT_DEAD == <<222, 173, 222, 173>>      \* de ad de ad
CUSTOM_SLOT_BEEF == <<190, 239, 190, 239>>      \* be ef be ef
CustomSlots == {CUSTOM_SLOT_DEAD, CUSTOM_SLOT_BEEF}

\* Two of the built-in signatures: beep, cuckoo
BuiltinSignatures == { <<253, 195, 102, 165>>, <<234, 45, 76, 2>> }

\* Values choose_next_custom_slot can be called with: None, the custom
\* slots, built-in signatures, and byte strings that are no signature
SignatureValues ==
    CustomSlots \cup BuiltinSignatures \cup { <<222, 173>>, <<222, 173, 222, 173, 0>> }
CurrentSignatures == {None} \cup { Some(sig) : sig \in SignatureValues }

\* A chooser that always returns the first slot
ChooseFirstCustomSlot(current_signature) == CUSTOM_SLOT_DEAD

\* choose_next_custom_slot
ChooseNextCustomSlot(current_signature) ==
    IF current_signature = Some(CUSTOM_SLOT_DEAD) THEN CUSTOM_SLOT_BEEF
    ELSE CUSTOM_SLOT_DEAD

\* A CLI that never finds a configuration
NoCurrentSignature(configuration_sig) == None

\* do_upload_ringtone._op: current_sig is the cached configuration's
\* ringtone_signature, None without a configuration
CurrentSignature(configuration_sig) == configuration_sig

\* Bound on the iterations of choose_next_custom_slot
MaxIter == 3
\* Bound on the auto-slot uploads in a row
MaxUploads == 3

RingInit ==
    /\ \E start \in CurrentSignatures :
         slotIter = [cur |-> start, prev |-> start, n |-> 0]
    /\ \E active \in CustomSlots \cup BuiltinSignatures :
         ring = [active |-> active, current |-> None, target |-> None,
                 prev |-> None, prevOk |-> FALSE, n |-> 0, phase |-> "idle"]

RingUnchanged == UNCHANGED <<codecVars, alarmVars, connVars, lock, ackVars,
                             taskVars, upVars, handlerVars, callVars>>

\* choose_next_custom_slot applied to its previous result
ChooseNext ==
    /\ slotIter.n < MaxIter
    /\ slotIter' = [cur |-> Some(ChooseNextCustomSlot(slotIter.cur)),
                    prev |-> slotIter.cur, n |-> slotIter.n + 1]
    /\ UNCHANGED ring
    /\ RingUnchanged

\* do_upload_ringtone._op with slot "auto": get_configuration() has read
\* the device's configuration back; the target signature is chosen
AutoChoose ==
    /\ ring.phase = "idle"
    /\ ring.n < MaxUploads
    /\ LET current_sig == CurrentSignature(Some(ring.active))
       IN  ring' = [ring EXCEPT !.current = current_sig,
                                !.target = Some(ChooseNextCustomSlot(current_sig)),
                                !.prev = ring.target,
                                !.phase = "chosen"]
    /\ UNCHANGED slotIter
    /\ RingUnchanged

\* upload_ringtone(pcm, signature=sig) returns True.  Whether the device
\* then plays the uploaded slot is the device's choice.
AutoUploaded ==
    /\ ring.phase = "chosen"
    /\ \E activates \in BOOLEAN :
         ring' = [ring EXCEPT !.active = IF activates THEN Val(ring.target) ELSE @,
                              !.prevOk = activates,
                              !.n = @ + 1,
                              !.phase = "idle"]
    /\ UNCHANGED slotIter
    /\ RingUnchanged

\* upload_ringtone raises (init ack timeout, connection lost): the device
\* keeps its active signature
AutoUploadFailed ==
    /\ ring.phase = "chosen"
    /\ ring' = [ring EXCEPT !.prevOk = FALSE, !.n = @ + 1, !.phase = "idle"]
    /\ UNCHANGED slotIter
    /\ RingUnchanged

InitRingtone == ProtoInit /\ CachesInit /\ CfgIdle /\ AlarmIdle /\ RingInit
NextRingtone ==
    \/ ChooseNext
    \/ AutoChoose
    \/ AutoUploaded
    \/ AutoUploadFailed
SpecRingtone == InitRingtone /\ [][NextRingtone]_vars


(***************************************************************************)
(* _ensure_connected() under the event loop's scheduling                   *)
(***************************************************************************)
\* Two tasks calling _ensure_connected() again and again
NextEnsure ==
    \/ \E t \in Tasks : CallEnsureConnected(t)
    \/ \E t \in Tasks : EnsureLoop(t)
    \/ \E t \in Tasks : ConnectLocked(t)
    \/ \E t \in Tasks : ConnectScanned(t)
    \/ \E t \in Tasks : ConnectOpened(t)
    \/ \E t \in Tasks : ConnectFailed(t)
    \/ \E t \in Tasks : ConnectAuth1(t)
    \/ \E t \in Tasks : ConnectAuth2(t)
    \/ \E t \in Tasks : ConnectSubscribe(t)
    \/ \E t \in Tasks : ConnectDone(t)
    \/ \E t \in Tasks : EnsureTimeout(t)
    \/ \E t \in Tasks : EnsureReturn(t)
    \/ \E c \in 1..Len(clients) : TransportDrop(c)
    \/ \E c \in 1..Len(clients) : OnDisconnect(c)

\* The event loop runs every task that is ready (the while test, the return
\* to the caller) and every timer expires (wait_for's CONNECTION_TIMEOUT).
\* Nothing is assumed of the transport: scan, connect and writes may hang.
EnsureFairness ==
    \A t \in Tasks :
        /\ WF_vars(EnsureLoop(t))
        /\ WF_vars(EnsureReturn(t))
        /\ WF_vars(EnsureTimeout(t))
SpecEnsure == InitProto /\ [][NextEnsure]_vars /\ EnsureFairness

(***************************************************************************)
(* Specifications of the two codecs                                        *)
(***************************************************************************)
InitConfig == CfgInit /\ AlarmIdle /\ ProtoInit /\ FacadeIdle
NextConfig == CfgNext
SpecConfig == InitConfig /\ [][NextConfig]_vars

InitAlarm == AlarmInit /\ CfgIdle /\ ProtoInit /\ FacadeIdle
NextAlarm == AlarmNext
SpecAlarm == InitAlarm /\ [][NextAlarm]_vars

(***************************************************************************)
(* Claims about the codecs                                                 *)
(***************************************************************************)

\* The fields of a Configuration within their legal ranges
LegalConfiguration(c) ==
    /\ c.sound_volume \in 1..5
    /\ c.timezone_offset \in 0..720 /\ c.timezone_offset % 6 = 0
    /\ c.screen_light_time \in 0..30
    /\ c.daytime_brightness \in 0..100 /\ c.daytime_brightness % 10 = 0
    /\ c.nighttime_brightness \in 0..100 /\ c.nighttime_brightness % 10 = 0
    /\ c.night_time_start_hour \in 0..23 /\ c.night_time_start_minute \in 0..59
    /\ c.night_time_end_hour \in 0..23 /\ c.night_time_end_minute \in 0..59

\* C2 (as claimed): whenever to_bytes() has been applied to a Configuration
\* whose fields are all within their legal ranges, it returned a 20-byte
\* record, and decoding that record gives back every field, the sign of the
\* timezone offset included.
C2_ConfigRoundTrip ==
    (cfgWire.exc # "unset" /\ LegalConfiguration(cfg)) =>
        /\ cfgWire.exc = ""
        /\ Len(cfgWire.val) = 20
        /\ Configuration(cfgWire.val).val = cfg

\* C2, the failing case: a legal configuration with a negative, non-zero
\* timezone offset has been handed to to_bytes().
C2_NegativeTimezoneEncoded ==
    /\ cfgWire.exc # "unset"
    /\ LegalConfiguration(cfg)
    /\ TimezoneOffsetGet(cfg) < 0

\* C5 (as claimed): the timezone-offset setter accepts a value iff it is a
\* multiple of 6 in [-720, 720]; a rejected value leaves magnitude and sign
\* as they were; and the stored magnitude is a multiple of 6 in every
\* reachable state.
C5_TimezoneSetterContract ==
    /\ cfgLast.op = "timezone_offset" =>
         /\ (cfgLast.result = "") <=>
              (cfgLast.value \in -720..720 /\ cfgLast.value % 6 = 0)
         /\ cfgLast.result # "" =>
              /\ cfg.timezone_offset = cfgLast.before.timezone_offset
              /\ cfg.tz_plus_flag = cfgLast.before.tz_plus_flag
    /\ cfg.timezone_offset % 6 = 0

\* C6 (as claimed): a brightness setter accepts a value iff it is a multiple
\* of 10 in 0..100; a rejected value leaves the stored brightness unchanged
\* and nothing is encoded for the device.
C6_BrightnessSetterContract ==
    /\ cfgLast.op = "daytime_brightness" =>
         /\ (cfgLast.result = "") <=>
              (cfgLast.value \in 0..100 /\ cfgLast.value % 10 = 0)
         /\ cfgLast.result # "" =>
              /\ cfg.daytime_brightness = cfgLast.before.daytime_brightness
              /\ cfgWire = Unset
    /\ cfgLast.op = "nighttime_brightness" =>
         /\ (cfgLast.result = "") <=>
              (cfgLast.value \in 0..100 /\ cfgLast.value % 10 = 0)
         /\ cfgLast.result # "" =>
              /\ cfg.nighttime_brightness = cfgLast.before.nighttime_brightness
              /\ cfgWire = Unset

\* An alarm with at least one of its five logical fields absent
AnyFieldAbsent(a) ==
    IsNone(a.is_enabled) \/ IsNone(a.hour) \/ IsNone(a.minute)
        \/ IsNone(a.days) \/ IsNone(a.snooze)

\* C3: once the record produced by to_bytes() for a configured alarm has
\* been decoded again (same slot, its five payload bytes), the decoded alarm
\* equals the original in slot, enabled flag, hour, minute, day set and
\* snooze flag, and it encodes to the same bytes.
C3_AlarmRoundTrip ==
    (~IsNone(alarmDecoded) /\ ~AnyFieldAbsent(alarm)) =>
        /\ Val(alarmDecoded) = alarm
        /\ AlarmToBytes(Val(alarmDecoded)) = alarmWire

\* C3 witness: a configured alarm in slot 15 with six days set has made the
\* round trip.
C3_RoundTripDone ==
    /\ ~IsNone(alarmDecoded)
    /\ ~AnyFieldAbsent(alarm)
    /\ alarm.slot = 15
    /\ Val(alarm.days) = {1, 2, 3, 4, 5, 7}

\* C4: whenever an alarm that is not fully configured has been encoded, the
\* record is 07 05 <slot> FF FF FF FF FF whatever fields are present; and a
\* delete always leaves that record, also on a slot that was already empty.
C4_UnconfiguredEncodesSentinel ==
    /\ (alarmWire.exc # "unset" /\ AnyFieldAbsent(alarm)) =>
          alarmWire = Return(<<7, 5, alarm.slot, 255, 255, 255, 255, 255>>)
    /\ alarmLast.op = "delete" =>
          alarmWire = Return(<<7, 5, alarm.slot, 255, 255, 255, 255, 255>>)

\* C4 witness: an alarm holding some fields but not all has been encoded.
C4_PartialAlarmEncoded ==
    /\ alarmLast.op = "to_bytes"
    /\ AnyFieldAbsent(alarm)
    /\ ~IsNone(alarm.is_enabled)
    /\ ~IsNone(alarm.days)
    /\ alarmWire.exc = ""

(***************************************************************************)
(* Claims about the connection manager and the upload engine               *)
(***************************************************************************)

\* C1 (as claimed): whenever _ensure_connected() returns normally, both
\* authentication frames have already been written on the connection the
\* caller is handed, in every interleaving of two tasks.
C1_ReturnsAuthenticated ==
    \A t \in Tasks :
        pc[t] = "ec_done" =>
            /\ conn[t] # 0
            /\ clients[conn[t]].auth1
            /\ clients[conn[t]].auth2

\* C7 (as claimed): upload_ringtone never returns success unless the init
\* ack and the ack of every block it sent were received.
C7_SuccessMeansEveryAck ==
    (op[Uploader] = "upload" /\ res[Uploader] = "ok") =>
        /\ fut[Uploader][OP_INIT] = "result"
        /\ ~up[Uploader].rearmedPending
        /\ (up[Uploader].blk >= 1 => fut[Uploader][OP_BLOCK] = "result")

\* C8: audio data packets are written only once the init ack has resolved
\* the 0x10 waiter; when no init ack arrives in time the upload ends with
\* TimeoutError, its waiter cancelled, after the init frame and before any
\* data packet.
C8_NoInitAckNoData ==
    /\ up[Uploader].pkts > 0 => fut[Uploader][OP_INIT] = "result"
    /\ (pc[Uploader] = "u_init_wait" /\ fut[Uploader][OP_INIT] = "pending")
          => up[Uploader].pkts = 0
    /\ (op[Uploader] = "upload" /\ res[Uploader] = "TimeoutError") =>
          /\ up[Uploader].initWritten
          /\ up[Uploader].pkts = 0
          /\ fut[Uploader][OP_INIT] = "cancelled"

\* C8 witness: an upload whose init frame was written has ended with
\* TimeoutError, no data packet written.
C8_InitTimedOut ==
    /\ op[Uploader] = "upload"
    /\ res[Uploader] = "TimeoutError"
    /\ up[Uploader].initWritten
    /\ up[Uploader].size > 0
    /\ up[Uploader].pkts = 0

\* C9 (as claimed): a successful upload of N bytes has sent ceil(N/512)
\* blocks of 4 packets after the init ack, and a packet of block k+1 is
\* written only after the ack of block k was received.
C9_StrictSequence ==
    /\ (op[Uploader] = "upload" /\ res[Uploader] = "ok") =>
          /\ up[Uploader].blk = (up[Uploader].size + 511) \div 512
          /\ up[Uploader].pkts = 4 * up[Uploader].blk
    /\ up[Uploader].pkts > 0 => fut[Uploader][OP_INIT] = "result"
    /\ (/\ pc[Uploader] \in {"u_pkt_write", "u_pkt_sleep"}
        /\ up[Uploader].blk >= 1
        /\ up[Uploader].pkt < 3) => fut[Uploader][OP_BLOCK] = "result"

\* int(p * 100) of a fraction num / size
Percent(num, size) == (num * 100) \div size

\* C10 (as claimed): the fraction passed to the progress callback is
\* non-decreasing, within [0,1], equal to the payload bytes sent over the
\* payload size, and no two invocations fall in the same integer percentage.
C10_OncePerPercentage ==
    LET k == cb[Uploader]
        u == up[Uploader]
    IN  k.calls > 0 =>
          /\ k.prev_p <= k.p
          /\ k.p \in 0..u.size
          /\ (u.pkt = 0 => k.p = u.sent)
          /\ (k.calls >= 2 => Percent(k.p, u.size) # Percent(k.prev_p, u.size))

\* C10 (amended): the engine invokes the callback once per completed block,
\* with a non-decreasing fraction in [0,1] equal to the payload bytes sent
\* over the payload size (never for an empty payload); it is the CLI's
\* callback that prints only when the integer percentage has changed, so the
\* printed percentages strictly increase.
C10_OncePerBlockPrintedOncePerPercentage ==
    LET k == cb[Uploader]
        u == up[Uploader]
    IN  /\ k.calls = u.blk
        /\ u.size = 0 => k.calls = 0
        /\ k.calls > 0 =>
             /\ k.prev_p <= k.p
             /\ k.p \in 0..u.size
             /\ k.p = (IF 512 * k.calls < u.size THEN 512 * k.calls ELSE u.size)
             /\ (u.pkt = 0 => k.p = u.sent)
             /\ k.last_pct = Percent(k.p, u.size)
             /\ k.printed = (k.last_pct > k.prev_pct)

\* C10 witness: in an upload of more than 100 blocks the callback was
\* invoked again within the same integer percentage and printed nothing.
C10_RepeatedPercentage ==
    /\ up[Uploader].blk > 50
    /\ cb[Uploader].calls >= 2
    /\ ~cb[Uploader].printed
    /\ cb[Uploader].last_pct = cb[Uploader].prev_pct

(***************************************************************************)
(* Claims about the custom ringtone slots                                  *)
(***************************************************************************)

\* C17: choose_next_custom_slot returns BEEF for DEAD and DEAD for BEEF,
\* for an unknown signature and for None; so its result is a custom slot,
\* differs from its argument, and iterating it alternates DEAD / BEEF.
C17_ChooseAlternates ==
    slotIter.n >= 1 =>
        /\ Val(slotIter.cur) \in CustomSlots
        /\ slotIter.cur # slotIter.prev
        /\ (slotIter.prev = Some(CUSTOM_SLOT_DEAD)
               => slotIter.cur = Some(CUSTOM_SLOT_BEEF))
        /\ (slotIter.prev # Some(CUSTOM_SLOT_DEAD)
               => slotIter.cur = Some(CUSTOM_SLOT_DEAD))
        /\ (slotIter.n >= 2 =>
               {Val(slotIter.cur), Val(slotIter.prev)} = CustomSlots)

\* C17 witness: starting from a signature that is no custom slot, the
\* chooser has been iterated three times and is back at DEAD.
C17_IteratedFromUnknown ==
    /\ slotIter.n = 3
    /\ slotIter.cur = Some(CUSTOM_SLOT_DEAD)
    /\ slotIter.prev = Some(CUSTOM_SLOT_BEEF)

\* C18 (as claimed): each auto-slot upload targets the custom slot that is
\* not active, no upload targets the slot in use, and two consecutive
\* uploads never target the same slot.
C18_PingPong ==
    ring.target # None =>
        /\ Val(ring.target) \in CustomSlots
        /\ (ring.phase = "chosen" => Val(ring.target) # ring.active)
        /\ (ring.prev # None => ring.target # ring.prev)

\* C18 (amended): each auto-slot upload targets a custom slot other than
\* the active signature read just before (BEEF when DEAD is active, else
\* DEAD), so it never overwrites the slot in use; it differs from the
\* previous upload's target whenever that upload made its slot the active
\* one.  After a failed upload, or one the device did not switch to, the
\* same slot is targeted again.
C18_TargetsInactiveSlot ==
    ring.target # None =>
        /\ Val(ring.target) \in CustomSlots
        /\ (ring.phase = "chosen" =>
              /\ Val(ring.target) # ring.active
              /\ (ring.active = CUSTOM_SLOT_DEAD
                     <=> ring.target = Some(CUSTOM_SLOT_BEEF))
              /\ (ring.prev # None /\ ring.prevOk => ring.target # ring.prev)
              /\ (ring.prev # None /\ ~ring.prevOk => ring.target = ring.prev))

\* C18 witness: after an upload that did not become the active ringtone,
\* the next auto-slot upload has chosen the same slot again.
C18_SameSlotAgain ==
    /\ ring.phase = "chosen"
    /\ ring.prev # None
    /\ ring.target = ring.prev
    /\ Val(ring.target) # ring.active

(***************************************************************************)
(* Claims about _ensure_connected()                                        *)
(***************************************************************************)

ReadConfigRequest == <<1, 2>>

\* C13, the outcomes: get_configuration() called without a live connection
\* raises NotConnectedError with nothing written; otherwise it writes 01 02
\* and nothing else; it returns normally only with a configuration frame
\* handled since the call started, and a TimeoutError is one raised after
\* the request was written.
C13_Outcomes ==
    op[Caller] = "get_configuration" =>
        /\ wire[Caller] \in {<<>>, <<ReadConfigRequest>>}
        /\ (pc[Caller] # "idle" => wire[Caller] = <<ReadConfigRequest>>)
        /\ (res[Caller] = "NotConnectedError" => wire[Caller] = <<>>)
        /\ (res[Caller] = "TimeoutError" => wire[Caller] = <<ReadConfigRequest>>)
        /\ (res[Caller] = "ok" =>
              /\ wire[Caller] = <<ReadConfigRequest>>
              /\ cfgSeen.sinceCall
              /\ configuration # None)

\* C13, the call itself: connected, it goes on to write the request; not
\* connected, it ends at once with NotConnectedError.
C13_CallStep ==
    (/\ pc[Caller] = "idle"
     /\ op[Caller] # "get_configuration"
     /\ op'[Caller] = "get_configuration")
    => IF IsConnected(client)
       THEN pc'[Caller] = "gc_write" /\ wire'[Caller] = <<ReadConfigRequest>>
       ELSE /\ pc'[Caller] = "idle"
            /\ res'[Caller] = "NotConnectedError"
            /\ wire'[Caller] = <<>>

\* C13: get_configuration() needs a live connection (NotConnectedError and
\* no write otherwise), writes the request 01 02, returns normally only
\* once a 13 02 frame has been handled after the call started, and never
\* waits forever for it: the wait ends by the frame or by TimeoutError.
C13_GetConfiguration ==
    /\ []C13_Outcomes
    /\ [][C13_CallStep]_vars
    /\ ((pc[Caller] = "gc_wait") ~> (pc[Caller] # "gc_wait"))

\* C13 witness: get_configuration() has returned normally after the device
\* answered its request with the frame of a device west of Greenwich.
C13_ConfigurationRead ==
    /\ op[Caller] = "get_configuration"
    /\ res[Caller] = "ok"
    /\ cfgSeen.sinceCall
    /\ cfgSeen.frame = Some(WestFrame)
    /\ configuration = Some(Configuration(WestFrame).val)

\* C14: set_configuration(cfg) writes the 20-byte record 13 01 ... first and
\* the read-back request 01 02 only after that write has returned; when it
\* returns normally a configuration frame has been handled since the record
\* was written and the cached configuration is the one decoded from the
\* last frame handled.
C14_SetConfigurationReadsBack ==
    op[Caller] = "set_configuration" =>
        /\ (pc[Caller] = "sc_write" =>
              /\ Len(wire[Caller]) = 1
              /\ Len(wire[Caller][1]) = 20
              /\ SubSeq(wire[Caller][1], 1, 2) = <<19, 1>>)
        /\ (pc[Caller] \in {"gc_write", "gc_wait"} => Len(wire[Caller]) = 2)
        /\ (res[Caller] = "ok" =>
              /\ Len(wire[Caller]) = 2
              /\ Len(wire[Caller][1]) = 20
              /\ SubSeq(wire[Caller][1], 1, 2) = <<19, 1>>
              /\ wire[Caller][2] = ReadConfigRequest
              /\ cfgSeen.sinceWrite
              /\ cfgSeen.frame # None
              /\ configuration = Some(Configuration(Val(cfgSeen.frame)).val))

\* C14 witness: set_configuration() has returned normally and the cached
\* configuration, decoded from the device's frame, differs from the object
\* the caller passed.
C14_CacheIsDeviceFrame ==
    /\ op[Caller] = "set_configuration"
    /\ res[Caller] = "ok"
    /\ cfgSeen.sinceWrite
    /\ configuration # call[Caller].obj
    /\ configuration = Some(Configuration(ScenarioAFrame).val)

\* C19 (as claimed): after every completed write that changes device state
\* or requests a read-back (configuration, alarm slot, time, read request)
\* the pending idle-disconnect timer was cancelled and a fresh one armed.
C19_EveryWriteRearmsTimer ==
    lastWrite.kind # "none" => lastWrite.rearmed

(***************************************************************************)
(* Claims about the alarm snapshot and the facade's alarm operations       *)
(***************************************************************************)
\* The handler ran on the notification at the head of the inbox
Delivered == inbox # <<>> /\ inbox' = Tail(inbox) /\ clients' = clients

\* ... and the notification was an alarm fragment
AlarmFrameDelivered ==
    /\ Delivered
    /\ Len(Head(inbox)) >= 8
    /\ SubSeq(Head(inbox), 1, 2) = <<17, 6>>

PresentAfter == {i \in Slots : alarmsBySlot'[i] # None}

\* A list of Alarm objects in ascending slot order, one per slot of S,
\* each the map's entry for its slot
OrderedListOf(list, S) ==
    /\ Len(list) = Cardinality(S)
    /\ \A k \in 1..Len(list) :
          /\ list[k].slot \in S
          /\ list[k] = Val(alarmsBySlot'[list[k].slot]).alarm
    /\ \A k \in 1..(Len(list) - 1) : list[k].slot < list[k + 1].slot

\* C15, one step: the alarms event becomes set, or a complete list is
\* published, only with all 16 slots in the map, and then the cached list
\* is that map in slot order; an alarm fragment that leaves the map
\* partial publishes the ordered partial list and leaves the event and the
\* cached list alone; a fragment that fills the map completes the snapshot.
C15_Step ==
    /\ (~alarmsEvent /\ alarmsEvent') =>
          /\ PresentAfter = Slots
          /\ published'.kind = "complete"
    /\ (published' # published /\ published'.kind = "complete") =>
          /\ PresentAfter = Slots
          /\ alarmsEvent'
          /\ published'.list = alarms'
          /\ Len(alarms') = ALARM_SLOTS_COUNT
          /\ \A i \in Slots : alarms'[i + 1].slot = i
          /\ OrderedListOf(alarms', Slots)
    /\ (AlarmFrameDelivered /\ PresentAfter # Slots) =>
          /\ published'.kind = "partial"
          /\ OrderedListOf(published'.list, PresentAfter)
          /\ alarmsEvent' = alarmsEvent
          /\ alarms' = alarms
    /\ (AlarmFrameDelivered /\ PresentAfter = Slots) =>
          /\ alarmsEvent'
          /\ published'.kind = "complete"

\* C15: the alarms-wait is resolved and the complete event is sent only
\* when all 16 slots are in the current snapshot, and then the cached list
\* has exactly 16 entries with entry i being slot i; while the snapshot is
\* partial the wait stays unresolved and only the ordered partial list is
\* published.
C15_CompleteOnlyWithAllSlots ==
    /\ [][C15_Step]_vars
    /\ [](alarms # <<>> =>
            /\ Len(alarms) = ALARM_SLOTS_COUNT
            /\ \A i \in Slots : alarms[i + 1].slot = i)
    /\ [](alarmsEvent => alarms # <<>>)

\* C15 witness: get_alarms() is waiting and the snapshot has just been
\* completed by the fragments of base 0 (slots 0-9) and base 10 (slots
\* 10-15): the event is set and the complete list of 16 is published.
C15_TwoFragmentsComplete ==
    /\ pc[Caller] = "ga_wait"
    /\ alarmsEvent
    /\ published.kind = "complete"
    /\ published.list = alarms
    /\ Len(alarms) = ALARM_SLOTS_COUNT
    /\ \A i \in 0..9 : alarms[i + 1] = Alarm(i, DeviceEntry(i, 2))
    /\ \A i \in 10..15 : alarms[i + 1] = Alarm(i, DeviceEntry(i, 1))

\* C16, one step: handling a base-0 fragment leaves in the map exactly the
\* slots of that fragment.
C16_Step ==
    (AlarmFrameDelivered /\ Head(inbox)[3] = 0) =>
        PresentAfter = {i \in Slots : i < (Len(Head(inbox)) - 3) \div 5}

\* C16: a base-0 fragment starts a new snapshot: what was accumulated
\* before is discarded before its entries are merged, so the map (and with
\* it a completed snapshot) never holds an entry from before the most
\* recent base-0 fragment.
C16_BaseZeroRestarts ==
    /\ [][C16_Step]_vars
    /\ [](\A i \in Slots : alarmsBySlot[i] # None => Val(alarmsBySlot[i]).fresh)

\* C16 witness: a base-0 fragment arrived while the snapshot was partial;
\* the entries accumulated were discarded and the map holds slots 0-9 of
\* the new fragment only.
C16_RestartedWhilePartial ==
    /\ published.kind = "partial"
    /\ published.dropped > 0
    /\ {i \in Slots : alarmsBySlot[i] # None} = 0..9
    /\ \A i \in 0..9 : Val(alarmsBySlot[i]).fresh

IsSlotRecord(frame) == Len(frame) >= 2 /\ SubSeq(frame, 1, 2) = <<7, 5>>

SlotRecordsWritten(t) == { k \in 1..Len(wire[t]) : IsSlotRecord(wire[t][k]) }

SlotOutOfRange(t) ==
    ~(0 <= call[t].slot /\ call[t].slot < ALARM_SLOTS_COUNT)

\* C11, the step that takes the range test: with a slot outside [0, 16)
\* the call ends there returning False; nothing is written and the cached
\* alarms are left as they are.
C11_Step ==
    (/\ op[Caller] \in AlarmOps
     /\ pc[Caller] = "ec_done"
     /\ pc'[Caller] # "ec_done"
     /\ call[Caller].stage = "connect"
     /\ SlotOutOfRange(Caller)) =>
        /\ pc'[Caller] = "idle"
        /\ res'[Caller] = "False"
        /\ wire' = wire
        /\ alarms' = alarms

\* C11: set_alarm and delete_alarm with a slot outside [0, 16) are
\* rejected: no 07 05 record is written for the request, True is never
\* returned, and the call that gets as far as the range test returns
\* False.
C11_OutOfRangeRejected ==
    /\ [][C11_Step]_vars
    /\ []((op[Caller] \in AlarmOps /\ SlotOutOfRange(Caller)) =>
            /\ SlotRecordsWritten(Caller) = {}
            /\ res[Caller] # "True")

\* C11 witness: set_alarm(16, ...) returned False after the alarms had
\* been loaded; the only frame written was the request 01 06.
C11_Slot16ReturnedFalse ==
    /\ op[Caller] = "set_alarm"
    /\ call[Caller].slot = ALARM_SLOTS_COUNT
    /\ res[Caller] = "False"
    /\ wire[Caller] = << <<1, 6>> >>

\* The slot's alarm after set_alarm's assignments, field by field
Provided(arg, cached) == IF arg = None THEN cached ELSE arg

ExpectedAlarm(cur, f) ==
    [slot |-> cur.slot,
     is_enabled |-> Provided(f[1], cur.is_enabled),
     hour |-> IF f[2] = None THEN cur.hour ELSE Some(Val(f[2])[1]),
     minute |-> IF f[2] = None THEN cur.minute ELSE Some(Val(f[2])[2]),
     days |-> Provided(f[3], cur.days),
     snooze |-> Provided(f[4], cur.snooze)]

\* C12, the step from the range test to the write: only the slot's own
\* entry of the cached list changes, and in it only the fields provided;
\* a slot left unconfigured ends the call with ValidationError and writes
\* nothing; otherwise the slot's 8-byte record is the one frame written
\* (or, the connection having gone meanwhile, NotConnectedError is raised).
C12_Step ==
    (/\ op[Caller] = "set_alarm"
     /\ pc[Caller] = "ec_done"
     /\ pc'[Caller] # "ec_done"
     /\ call[Caller].stage = "connect"
     /\ 0 <= call[Caller].slot /\ call[Caller].slot < ALARM_SLOTS_COUNT
     /\ Len(alarms) = ALARM_SLOTS_COUNT) =>
        LET slot == call[Caller].slot
            expected == ExpectedAlarm(alarms[slot + 1], call[Caller].fields)
        IN  /\ Len(alarms') = ALARM_SLOTS_COUNT
            /\ \A i \in Slots : i # slot => alarms'[i + 1] = alarms[i + 1]
            /\ alarms'[slot + 1] = expected
            /\ IF ~IsConfigured(expected)
               THEN /\ res'[Caller] = "ValidationError"
                    /\ wire' = wire
               ELSE IF ~IsConnected(client)
               THEN /\ res'[Caller] = "NotConnectedError"
                    /\ wire' = wire
               ELSE /\ pc'[Caller] = "sa_write"
                    /\ wire'[Caller] = Append(wire[Caller], AlarmToBytes(expected).val)
                    /\ Len(AlarmToBytes(expected).val) = 8
                    /\ SubSeq(AlarmToBytes(expected).val, 1, 3) = <<7, 5, slot>>

\* C12, the outcomes: a ValidationError comes with no 07 05 record
\* written; a call that returns True wrote exactly one, followed by the
\* request 01 06 as the last frame, and the alarms are loaded again.
C12_Outcomes ==
    op[Caller] = "set_alarm" =>
        /\ Cardinality(SlotRecordsWritten(Caller)) <= 1
        /\ (res[Caller] = "ValidationError" => SlotRecordsWritten(Caller) = {})
        /\ (res[Caller] = "True" =>
              LET n == Len(wire[Caller])
              IN  /\ n >= 2
                  /\ SlotRecordsWritten(Caller) = {n - 1}
                  /\ Len(wire[Caller][n - 1]) = 8
                  /\ wire[Caller][n - 1][3] = call[Caller].slot
                  /\ wire[Caller][n] = <<1, 6>>
                  /\ Len(alarms) = ALARM_SLOTS_COUNT)

\* C12: set_alarm on an in-range slot changes only the fields provided for
\* that slot; an unconfigured result is a ValidationError with no slot
\* write; otherwise exactly one record 07 05 <slot> + 5 bytes is written
\* and the alarms are then read again with 01 06.
C12_SetAlarmMergesAndRefreshes ==
    /\ [][C12_Step]_vars
    /\ []C12_Outcomes

\* C12 witness: set_alarm(3, is_enabled=True) on a configured slot
\* returned True: the record written carries the new flag with the cached
\* time, days and snooze, and 01 06 followed it.
C12_PartialUpdateWritten ==
    /\ op[Caller] = "set_alarm"
    /\ res[Caller] = "True"
    /\ call[Caller].slot = 3
    /\ call[Caller].fields = <<Some(TRUE), None, None, None>>
    /\ Len(wire[Caller]) >= 2
    /\ wire[Caller][Len(wire[Caller]) - 1] = <<7, 5, 3, 1, 8, 3, 8, 1>>
    /\ wire[Caller][Len(wire[Caller])] = <<1, 6>>

(***************************************************************************)
(* Claims about connect() and the disconnect callback                      *)
(***************************************************************************)
\* C21 (as claimed): connect() reports its outcome by its return value and
\* lets no exception reach its caller, so _ensure_connected() ends only by
\* returning or with the NotConnectedError of its own timeout, never with
\* an error of the transport or of a cleared handle.
C21_ConnectNeverRaises ==
    \A t \in Tasks :
        op[t] = "ensure_connected" =>
            res[t] \in {"none", "running", "ok", "NotConnectedError"}

\* C22, the callback's step: the handle is cleared, the idle-disconnect
\* timer is cancelled and cleared, one DEVICE_DISCONNECT is sent, and no
\* task is resumed or ended by it.
C22_Step ==
    \A c \in 1..Len(clients) :
        (clients[c].state = "closing" /\ clients'[c].state = "closed") =>
            /\ client' = 0
            /\ disconnectTask' = "none"
            /\ clients'[c].disconnects = clients[c].disconnects + 1
            /\ pc' = pc
            /\ res' = res

\* C22: an unsolicited disconnect, whenever it comes, resets the
\* connection state (handle and timer cleared), sends the disconnected
\* event once and raises into no caller; a get_configuration() waiting for
\* its frame when its link has gone ends by its own TimeoutError.
C22_DisconnectResetsState ==
    /\ [][C22_Step]_vars
    /\ [](\A c \in 1..Len(clients) :
            /\ clients[c].disconnects <= 1
            /\ (clients[c].disconnects = 1 => clients[c].state = "closed"))
    /\ ((/\ pc[Caller] = "gc_wait" /\ ~cfgEvent /\ client = 0
          /\ \A c \in 1..Len(clients) : clients[c].state # "connected")
           ~> (pc[Caller] = "idle" /\ res[Caller] = "TimeoutError"))

\* C22 witness: the link dropped and the callback ran while
\* get_configuration() was waiting for the configuration frame.
C22_DroppedWhileWaiting ==
    /\ pc[Caller] = "gc_wait"
    /\ ~cfgEvent
    /\ client = 0
    /\ disconnectTask = "none"
    /\ Len(clients) >= 1
    /\ clients[1].state = "closed"
    /\ clients[1].disconnects = 1

(***************************************************************************)
(* C23: a cached Configuration expires 30 minutes after its capture, and   *)
(* set_time and the @updates_configuration setters read the device's       *)
(* configuration again before they use a cache that is absent or expired,  *)
(* so that no configuration write is ever encoded from an expired          *)
(* snapshot.  Checked as: no step in which an operation working on the     *)
(* cached object issues the write of a 13 01 record starts from a state    *)
(* where the cached object is absent or expired.                           *)
(***************************************************************************)
\* Operations that encode the 13 01 record from the cached object
CacheOps == {"set_time", "set_screen_light_time", "enable_alarms"}

\* Task t issues the write of a configuration record in this step
ConfigWriteIssued(t) ==
    /\ pc[t] # "sc_write"
    /\ pc'[t] = "sc_write"

C23_Step ==
    \A t \in Tasks :
        (ConfigWriteIssued(t) /\ op'[t] \in CacheOps) =>
            (configuration # None /\ cfgSeen.age # "expired")

C23_NoWriteFromExpiredSnapshot == [][C23_Step]_vars

\* The part of C23 that the wrapper and set_time do provide: a snapshot
\* found absent or expired at the test of _ensure_configuration() is never
\* used, get_configuration() runs first
C23_RefreshStep ==
    \A t \in Tasks :
        (/\ pc[t] = "ec_done"
         /\ op[t] \in CacheOps
         /\ call[t].stage = "connect"
         /\ (configuration = None \/ cfgSeen.age = "expired")
         /\ pc'[t] # pc[t]) =>
            (/\ pc'[t] = "ec_start"
             /\ call'[t].stage = "ensure_cfg"
             /\ wire'[t] = wire[t]
             /\ configuration' = configuration)

C23_ChecksRefreshWhenExpired == [][C23_RefreshStep]_vars

(***************************************************************************)
(* C24: in every reachable state at most one waiter per opcode is live     *)
(* (neither resolved nor cancelled), and it is the registered one; an      *)
(* _arm_ack for an opcode whose registered waiter is live cancels that     *)
(* waiter before the new one is installed, and a task waiting on a         *)
(* cancelled waiter leaves upload_ringtone with CancelledError.            *)
(***************************************************************************)
LiveWaiters(opcode) == {t \in Tasks : fut[t][opcode] = "pending"}

C24_Step ==
    \A t \in Tasks, opcode \in Opcodes :
        /\ (/\ fut[t][opcode] = "pending"
            /\ \E st \in {"pending", "result", "cancelled"} :
                  <<opcode, st>> \in up'[t].superseded \ up[t].superseded)
              => (/\ <<opcode, "cancelled">> \in up'[t].superseded
                  /\ fut'[t][opcode] = "pending"
                  /\ ackWaiters'[opcode] = t)
        /\ (fut[t][opcode] = "pending" /\ ackWaiters'[opcode] \notin {0, t})
              => fut'[t][opcode] = "cancelled"
        /\ (pc[t] = "u_init_wait" /\ fut[t][OP_INIT] = "cancelled" /\ pc'[t] # pc[t])
              => res'[t] = "CancelledError"

C24_OneLiveWaiterPerOpcode ==
    /\ [](\A opcode \in Opcodes :
            /\ Cardinality(LiveWaiters(opcode)) <= 1
            /\ \A t \in Tasks :
                  /\ fut[t][opcode] = "pending" => ackWaiters[opcode] = t
                  /\ <<opcode, "pending">> \notin up[t].superseded)
    /\ [][C24_Step]_vars

\* The block waiter was armed anew while the one of the block before was
\* still live: the old one is cancelled, the new one is the live one
C24_RearmedWhileLive ==
    /\ up[Uploader].rearmedPending
    /\ <<OP_BLOCK, "cancelled">> \in up[Uploader].superseded
    /\ fut[Uploader][OP_BLOCK] = "pending"
    /\ ackWaiters[OP_BLOCK] = Uploader

(***************************************************************************)
(* C25: for an opcode only the waiter armed last can be resolved.  A       *)
(* future gets a result only in a step that starts with it registered and  *)
(* live, the futures it superseded keep the state the re-arm left them in, *)
(* and a future that was cancelled (by a re-arm or by the timeout of       *)
(* wait_for) is never given a result afterwards.                           *)
(***************************************************************************)
C25_Step ==
    \A t \in Tasks, opcode \in Opcodes :
        /\ (fut'[t][opcode] = "result" /\ fut[t][opcode] # "result")
              => (/\ ackWaiters[opcode] = t
                  /\ fut[t][opcode] = "pending"
                  /\ ackWaiters'[opcode] = 0
                  /\ up'[t].superseded = up[t].superseded)
        /\ fut[t][opcode] = "cancelled"
              => (/\ fut'[t][opcode] \in {"cancelled", "pending"}
                  /\ futResult'[t][opcode] = futResult[t][opcode])
        /\ futResult'[t][opcode] # futResult[t][opcode]
              => (fut[t][opcode] = "pending" /\ fut'[t][opcode] = "result")

C25_OnlyNewestResolved ==
    /\ [][C25_Step]_vars
    /\ [](\A t \in Tasks, opcode \in Opcodes :
            <<opcode, "pending">> \notin up[t].superseded)

\* The block waiter was armed anew while the one before was live, and the
\* ack that came afterwards resolved the new one
C25_AckAfterRearm ==
    /\ up[Uploader].rearmedPending
    /\ <<OP_BLOCK, "cancelled">> \in up[Uploader].superseded
    /\ <<OP_BLOCK, "result">> \notin up[Uploader].superseded
    /\ fut[Uploader][OP_BLOCK] = "result"
    /\ ackWaiters[OP_BLOCK] = 0

(***************************************************************************)
(* C26: in upload_ringtone every ack waiter is armed before the write that *)
(* triggers the ack is issued: when the write of the init frame, or of the *)
(* last packet of a block, is issued, the registry holds a live waiter of  *)
(* the uploading task for 0x10, respectively 0x08; hence whenever the      *)
(* device sends an ack of an opcode a live waiter is registered for it.    *)
(***************************************************************************)
C26_Step ==
    \A t \in Tasks :
        /\ (pc[t] # "u_init_write" /\ pc'[t] = "u_init_write")
              => (ackWaiters'[OP_INIT] = t /\ fut'[t][OP_INIT] = "pending")
        /\ (/\ pc[t] # "u_pkt_write" /\ pc'[t] = "u_pkt_write"
            /\ up'[t].pkt = AUDIO_BLOCK_PACKETS - 1)
              => (ackWaiters'[OP_BLOCK] = t /\ fut'[t][OP_BLOCK] = "pending")
        /\ (Len(inbox') > Len(inbox) /\ pc'[t] \in {"u_init_write", "u_pkt_write"})
              => LET opcode == inbox'[Len(inbox')][3]
                 IN  ackWaiters'[opcode] = t /\ fut'[t][opcode] = "pending"

C26_ArmedBeforeWrite == [][C26_Step]_vars

\* The last packet of a block is being written, its ack is already on the
\* way and the 0x08 waiter is registered and live
C26_AckOnItsWayDuringWrite ==
    /\ pc[Uploader] = "u_pkt_write"
    /\ up[Uploader].pkt = AUDIO_BLOCK_PACKETS - 1
    /\ inbox # <<>> /\ Head(inbox) = <<4, 255, 8, 0>>
    /\ ackWaiters[OP_BLOCK] = Uploader
    /\ fut[Uploader][OP_BLOCK] = "pending"

(***************************************************************************)
(* C27: an ack delivered after the waiter was armed and before the         *)
(* uploader awaits it, while the confirmed write of the init frame is in   *)
(* progress, is not lost: the handler resolves the waiter, and when the    *)
(* write returns wait_for() completes at once, without a timeout.          *)
(***************************************************************************)
C27_Step ==
    \A t \in Tasks :
        /\ (/\ Delivered /\ Head(inbox) = <<4, 255, 16>>
            /\ pc[t] = "u_init_write"
            /\ ackWaiters[OP_INIT] = t /\ fut[t][OP_INIT] = "pending")
              => (fut'[t][OP_INIT] = "result" /\ pc'[t] = "u_init_write")
        /\ (pc[t] = "u_init_write" /\ fut[t][OP_INIT] = "result" /\ pc'[t] # pc[t])
              => (/\ pc'[t] # "u_init_wait"
                  /\ res'[t] # "TimeoutError"
                  /\ (IsConnected(client) => res'[t] \in {"running", "ok"}))

C27_EarlyAckNotLost == [][C27_Step]_vars

\* The init ack was handled while the write of the init frame was still in
\* progress
C27_AckedDuringInitWrite ==
    /\ pc[Uploader] = "u_init_write"
    /\ fut[Uploader][OP_INIT] = "result"
    /\ futResult[Uploader][OP_INIT] # <<>>
    /\ ackWaiters[OP_INIT] = 0

(***************************************************************************)
(* C28: no operation leaves the ack registry holding a waiter that is      *)
(* never resolved: once an upload has finished, with or without success,   *)
(* and no ack is on its way any more, the registry holds no entry, and no  *)
(* future of the task is left pending.                                     *)
(***************************************************************************)
UploadFinished(t) ==
    /\ op[t] = "upload"
    /\ pc[t] = "idle"
    /\ res[t] \notin {"none", "running"}
    /\ inbox = <<>>

C28_RegistryEmptyAfterUpload ==
    \A t \in Tasks :
        UploadFinished(t) =>
            \A opcode \in Opcodes :
                ackWaiters[opcode] = 0 /\ fut[t][opcode] # "pending"

\* What does hold: a timed-out init waiter is cancelled, and no future is
\* pending outside the registry
C28_PendingOnlyInRegistry ==
    \A t \in Tasks, opcode \in Opcodes :
        /\ fut[t][opcode] = "pending" => ackWaiters[opcode] = t
        /\ (UploadFinished(t) /\ res[t] = "TimeoutError")
              => fut[t][OP_INIT] = "cancelled"

(***************************************************************************)
(* C29: for an inbound frame 04 FF <opcode> ... the handler pops the       *)
(* registry entry of the opcode and resolves it with the rest of the       *)
(* payload, the bytes after the opcode; an ack whose opcode has no live    *)
(* waiter is dropped and leaves the other registry entries, the futures,   *)
(* the cached configuration and the alarm state unchanged.                 *)
(***************************************************************************)
AckDelivered == Delivered /\ StartsWith(Head(inbox), <<4, 255>>) /\ Len(Head(inbox)) >= 3

\* The bytes of a frame after its opcode
AfterOpcode(frame) == SubSeq(frame, 4, Len(frame))

C29_PopStep ==
    AckDelivered =>
        LET opcode == Head(inbox)[3]
            owner == ackWaiters[opcode]
        IN  /\ ackWaiters' = [ackWaiters EXCEPT ![opcode] = 0]
            /\ UNCHANGED <<configuration, cfgEvent, alarms, alarmsBySlot, alarmsEvent,
                           published, pc, res>>
            /\ IF owner # 0 /\ fut[owner][opcode] = "pending"
               THEN fut' = [fut EXCEPT ![owner][opcode] = "result"]
               ELSE UNCHANGED <<fut, futResult>>

C29_ValueStep ==
    AckDelivered =>
        \A t \in Tasks, opcode \in Opcodes :
            (fut[t][opcode] = "pending" /\ fut'[t][opcode] = "result")
                => futResult'[t][opcode] = Some([kind |-> "payload",
                                                 value |-> AfterOpcode(Head(inbox))])

C29_ResolvedWithRemainder == [][C29_PopStep /\ C29_ValueStep]_vars

\* The part of C29 that holds: the entry is popped, a live waiter is
\* resolved, an unmatched ack changes nothing else
C29_PoppedAndUnmatchedDropped == [][C29_PopStep]_vars

(***************************************************************************)
(* C30: the 4-byte branch of the handler (opcode and status) is dead code: *)
(* every frame that meets its condition is consumed by the 3-byte branch   *)
(* before, which resolves with the whole payload, so no waiter is ever     *)
(* resolved with a bare status byte.                                       *)
(***************************************************************************)
C30_Step ==
    (AckDelivered /\ Len(Head(inbox)) >= 4) =>
        \A t \in Tasks, opcode \in Opcodes :
            futResult'[t][opcode] # futResult[t][opcode]
                => futResult'[t][opcode] = Some([kind |-> "payload",
                                                 value |-> Head(inbox)])

C30_StatusBranchDead ==
    /\ [][C30_Step]_vars
    /\ [](\A t \in Tasks, opcode \in Opcodes :
            futResult[t][opcode] # <<>> => Val(futResult[t][opcode]).kind = "payload")

\* A block ack of four bytes, 04 FF 08 00, has resolved the 0x08 waiter
C30_FourByteAckHandled ==
    /\ fut[Uploader][OP_BLOCK] = "result"
    /\ futResult[Uploader][OP_BLOCK] = Some([kind |-> "payload", value |-> <<4, 255, 8, 0>>])

(***************************************************************************)
(* C31: for a payload of N bytes, 0 < N < 2^24, and a 4-byte signature,    *)
(* upload_ringtone writes the init frame 08 10 + N in three little-endian  *)
(* bytes + signature, then exactly 4 * ceil(N / 512) data packets of       *)
(* 81 08 + 128 bytes; the bodies, put together in the order they are sent, *)
(* are the payload followed by 0xFF padding only, and the bytes counted as *)
(* sent are N.                                                             *)
(***************************************************************************)
\* Sizes whose three size bytes are all different from zero, the largest
\* size of three bytes among them
WideSizes == {1, 600, 66051, 16777215}

IsInitFrameOf(f, size, signature) ==
    /\ Len(f) = 5 + Len(signature)
    /\ f[1] = 8 /\ f[2] = 16
    /\ \A i \in 3..5 : IsByte(f[i])
    /\ f[3] + 256 * f[4] + 65536 * f[5] = size
    /\ SubSeq(f, 6, Len(f)) = signature

\* Packet number n (from 1) of a payload of size bytes
IsPacketOf(f, n, size) ==
    /\ Len(f) = 2 + 128
    /\ f[1] = 129 /\ f[2] = 8
    /\ \A i \in 1..128 :
          LET pos == (n - 1) * 128 + (i - 1)
          IN  f[2 + i] = IF pos < size THEN PcmByte(pos) ELSE 255

C31_FramesOfUpload ==
    /\ \A size \in WideSizes :
          IsInitFrameOf(InitPayload(size, <<1, 2, 3, 4>>), size, <<1, 2, 3, 4>>)
    /\ \A t \in Tasks :
          /\ pc[t] = "u_init_write"
                => IsInitFrameOf(up[t].frame, up[t].size, <<222, 173, 222, 173>>)
          /\ pc[t] = "u_pkt_write"
                => (/\ IsPacketOf(up[t].frame, up[t].pkts, up[t].size)
                    /\ up[t].pkts <= 4 * ((up[t].size + 511) \div 512))
          /\ (op[t] = "upload" /\ pc[t] = "idle" /\ res[t] = "ok" /\ up[t].size > 0)
                => (/\ up[t].pkts = 4 * ((up[t].size + 511) \div 512)
                    /\ up[t].sent = up[t].size)

\* An upload of 600 bytes has returned True after 8 packets, the last one
\* of padding only
C31_Uploaded600 ==
    /\ op[Uploader] = "upload" /\ pc[Uploader] = "idle" /\ res[Uploader] = "ok"
    /\ up[Uploader].size = 600
    /\ up[Uploader].pkts = 8
    /\ up[Uploader].sent = 600
    /\ up[Uploader].frame = <<129, 8>> \o [k \in 1..128 |-> 255]

(***************************************************************************)
(* C32: connect() is serialized by a lock: at most one connect attempt     *)
(* (scan, transport open, settle, auth, subscribe) is in progress at any   *)
(* time, made by the holder of the lock; a caller that waited for the lock *)
(* and finds the connection up when it gets it returns success without     *)
(* opening a transport connection or sending the auth frames again.        *)
(***************************************************************************)
AttemptPcs == {"c_locked", "c_scan", "c_connecting", "c_settle", "c_auth1", "c_auth2",
               "c_notify"}

Attempting == {t \in Tasks : pc[t] \in AttemptPcs}

C32_Step ==
    \A t \in Tasks :
        (pc[t] = "c_locked" /\ IsConnected(client) /\ pc'[t] # pc[t]) =>
            /\ clients' = clients
            /\ client' = client
            /\ pc'[t] \in {"ec_done", "idle"}
            /\ (pc'[t] = "idle" => res'[t] = "NotConnectedError")

C32_ConnectSerialized ==
    /\ [](/\ Cardinality(Attempting) <= 1
          /\ \A t \in Attempting : lock.holder = t
          /\ \A t \in Tasks : pc[t] = "c_wait" =>
                (lock.holder # 0 /\ \E k \in 1..Len(lock.waiters) : lock.waiters[k] = t))
    /\ [][C32_Step]_vars

\* The second caller has waited for the lock and gets it with the
\* connection made by the first one up, authenticated and subscribed
C32_WaiterFindsConnection ==
    /\ pc[2] = "c_locked" /\ lock.holder = 2
    /\ pc[1] \in {"ec_done", "idle"}
    /\ Len(clients) = 1 /\ IsConnected(client)
    /\ clients[1].auth1 /\ clients[1].auth2 /\ clients[1].notify

(***************************************************************************)
(* C33: on a successful connect() the connected event is published only    *)
(* after the notification channel is subscribed: whenever DEVICE_CONNECT   *)
(* has been sent for a client, start_notify has completed for it.          *)
(***************************************************************************)
C33_SubscribedBeforeAnnounced ==
    \A c \in 1..Len(clients) : clients[c].announced => clients[c].notify

(***************************************************************************)
(* C34: a configuration round-trip and an alarms round-trip in flight at   *)
(* the same time do not interfere: a 13 02 frame sets the configuration    *)
(* event and leaves the snapshot map, the cached alarm list and the alarms *)
(* event unchanged; an 11 06 frame leaves the cached configuration and the *)
(* configuration event unchanged; a wait whose event is set stays so until *)
(* its task returns normally, and a wait returns normally only when its    *)
(* own event is set.                                                       *)
(***************************************************************************)
C34_FrameStep ==
    Delivered =>
        LET f == Head(inbox)
        IN  /\ StartsWith(f, <<19, 2>>) =>
                  /\ UNCHANGED <<alarms, alarmsBySlot, alarmsEvent>>
                  /\ (Configuration(f).exc = "" =>
                         cfgEvent' /\ configuration' = Some(Configuration(f).val))
            /\ StartsWith(f, <<17, 6>>) =>
                  /\ UNCHANGED <<configuration, cfgEvent>>
                  /\ (Len(f) >= 8 /\ f[3] \in Slots => alarmsBySlot'[f[3]] # None)

C34_WaitStep ==
    /\ (pc[Caller] = "gc_wait" /\ cfgEvent) =>
          \/ pc'[Caller] = "gc_wait" /\ cfgEvent'
          \/ pc'[Caller] = "idle" /\ res'[Caller] = "ok"
    /\ (pc[AlarmReader] = "ga_wait" /\ alarmsEvent) =>
          \/ pc'[AlarmReader] = "ga_wait" /\ alarmsEvent'
          \/ pc'[AlarmReader] = "idle" /\ res'[AlarmReader] = "ok"
    /\ (pc[Caller] = "gc_wait" /\ pc'[Caller] = "idle" /\ res'[Caller] = "ok") => cfgEvent
    /\ (pc[AlarmReader] = "ga_wait" /\ pc'[AlarmReader] = "idle"
           /\ res'[AlarmReader] = "ok") => alarmsEvent

C34_RoundTripsIndependent == [][C34_FrameStep /\ C34_WaitStep]_vars

\* Both requests are waiting; the alarm list has been completed first and
\* the configuration frame is still to come
C34_AlarmsFirst ==
    /\ pc[Caller] = "gc_wait" /\ ~cfgEvent
    /\ pc[AlarmReader] = "ga_wait" /\ alarmsEvent /\ Len(alarms) = ALARM_SLOTS_COUNT
    /\ inbox # <<>> /\ StartsWith(Head(inbox), <<19, 2>>)

\* Both requests are waiting; the configuration frame has come first
C34_ConfigurationFirst ==
    /\ pc[Caller] = "gc_wait" /\ cfgEvent
    /\ pc[AlarmReader] = "ga_wait" /\ ~alarmsEvent
    /\ inbox # <<>> /\ StartsWith(Head(inbox), <<17, 6>>)

(***************************************************************************)
(* C35: a frame that matches no route (a prefix the handler does not know, *)
(* the ack prefix without an opcode, or an 11 06 frame too short for one   *)
(* 5-byte entry) is ignored: no task is resumed or failed, no alarms event *)
(* is published, and the ack registry, the futures, the cached             *)
(* configuration, the snapshot map and the cached alarm list stay as they  *)
(* are; a too-short base-0 fragment does not clear a partial snapshot.     *)
(***************************************************************************)
Unrouted(f) ==
    /\ ~(StartsWith(f, <<4, 255>>) /\ Len(f) >= 3)
    /\ ~StartsWith(f, <<19, 2>>)
    /\ ~(StartsWith(f, <<17, 6>>) /\ Len(f) >= 8)

C35_Step ==
    (Delivered /\ Unrouted(Head(inbox))) =>
        UNCHANGED <<ackWaiters, fut, futResult, configuration, cfgEvent, alarms,
                    alarmsBySlot, alarmsEvent, published, pc, res>>

C35_UnroutedIgnored == [][C35_Step]_vars

\* A too-short base-0 fragment is next to be delivered while the snapshot
\* holds the first ten slots and get_alarms() waits for the rest
C35_ShortFragmentOnPartial ==
    /\ inbox # <<>> /\ Head(inbox) = <<17, 6, 0, 1, 7>>
    /\ pc[AlarmReader] = "ga_wait" /\ ~alarmsEvent
    /\ \A i \in 0..9 : alarmsBySlot[i] # None
    /\ alarmsBySlot[10] = None

(***************************************************************************)
(* C36: the disconnect callback of an earlier client, run after a newer    *)
(* connection has been established, does not reset the newer connection:   *)
(* the handle of the live client and its idle-disconnect timer are left as *)
(* they are.                                                               *)
(***************************************************************************)
C36_Step ==
    \A c \in 1..Len(clients) :
        (/\ clients[c].state = "closing" /\ clients'[c].state = "closed"
         /\ client # c /\ IsConnected(client)) =>
            /\ client' = client
            /\ disconnectTask' = disconnectTask

C36_StaleDisconnectIgnored == [][C36_Step]_vars

(***************************************************************************)
(* C37: the idle-disconnect timer armed by a request's own write does not  *)
(* close the connection while the request is still waiting for its         *)
(* response: delayed_disconnect() never disconnects a live transport while *)
(* get_configuration() waits with its event clear.                         *)
(***************************************************************************)
TimerDisconnects ==
    /\ disconnectTask = "armed" /\ disconnectTask' = "none"
    /\ IsConnected(client)
    /\ clients'[client].state = "closing"

C37_Step ==
    (TimerDisconnects /\ clients[client].notify) =>
        ~(pc[Caller] = "gc_wait" /\ ~cfgEvent /\ lastWrite.kind = "read")

C37_TimerSparesPendingRequest == [][C37_Step]_vars

(***************************************************************************)
(* C38: a set_alarm call that fails with ValidationError (the merged slot  *)
(* is not fully configured) leaves the cached alarm list and the snapshot  *)
(* map exactly as they were before the call.                               *)
(***************************************************************************)
C38_Step ==
    (/\ op[Caller] = "set_alarm" /\ pc[Caller] # "idle"
     /\ pc'[Caller] = "idle" /\ res'[Caller] = "ValidationError") =>
        /\ alarms' = alarms
        /\ alarmsBySlot' = alarmsBySlot

C38_FailedSetAlarmKeepsCache == [][C38_Step]_vars

(***************************************************************************)
(* C39: in every reachable state the cached alarm list is empty or has     *)
(* exactly 16 entries with entry i holding slot i, and every key of the    *)
(* snapshot map lies in [0, 16): an entry of a fragment whose slot index   *)
(* (base + offset) is 16 or more is never stored.                          *)
(***************************************************************************)
C39_AlarmCacheShape ==
    /\ \/ alarms = <<>>
       \/ /\ Len(alarms) = 16
          /\ \A i \in 0..15 : alarms[i + 1].slot = i
    /\ \A k \in SlotIndices : alarmsBySlot[k] # None =>
          (0 <= k /\ k < 16 /\ Val(alarmsBySlot[k]).alarm.slot = k)

\* The fragment of slots 14 to 17 has been merged: slots 14 and 15 are in
\* the map and the list was completed by it
C39_OverlongFragmentMerged ==
    /\ published.kind = "complete"
    /\ Len(alarms) = 16
    /\ Val(alarmsBySlot[15]).alarm = Alarm(15, DeviceEntry(15, 1))
    /\ alarms[15] = Alarm(14, DeviceEntry(14, 1))
    /\ alarmsBySlot[16] = None /\ alarmsBySlot[17] = None
    /\ pc[Caller] = "ga_wait"

(***************************************************************************)
(* C40: no operation leaves an idle authenticated session open: whenever   *)
(* an operation of the facade has returned or failed and the connection is *)
(* live (authenticated and subscribed), an idle-disconnect timer is        *)
(* pending.                                                                *)
(***************************************************************************)
FacadeOps == {"get_configuration", "set_configuration", "set_time", "upload"}

C40_TimerPendingWhenIdle ==
    \A t \in Tasks :
        (/\ pc[t] = "idle" /\ op[t] \in FacadeOps
         /\ IsConnected(client)
         /\ clients[client].auth2 /\ clients[client].notify) =>
            disconnectTask = "armed"
====
